---- MODULE Spec2Model ----
(***************************************************************************)
(* Handle-management core of libquickjs-rs: the per-Runtime GlobalHolder   *)
(* registries (src/src/utils/global.rs), the Global handles that other     *)
(* threads clone and drop, and the Runtime glue that promotes and resolves *)
(* them (src/src/lib.rs).                                                  *)
(*                                                                         *)
(* Atomic operations are interleaved one at a time: an Arc<Ref> release is *)
(* two steps (the strong-count decrement, then Ref::drop's store to the    *)
(* dirty flag), cleanup() is the swap followed by one step per record that *)
(* retain_mut visits. A behaviour is an interleaving of these steps: every  *)
(* atomic access takes effect at once and in program order.                *)
(***************************************************************************)
EXTENDS Integers, Sequences, FiniteSets

\* ------------------------------------------------------------------ bounds
NumRt == 2        \* engine instances (JSRuntime pointers)
MaxObjs == 2      \* engine objects alive at once
MaxRecs == 2      \* Record / Arc<Ref> pairs whose handles or records still exist
MaxHandles == 2   \* Global handles (clones) per record
MaxLocals == 2    \* local Value / Context / Atom wrappers per engine object
MaxJobs == 2      \* jobs enqueued on one Runtime
NumClasses == 2   \* class types (impl Class) known to the program
TINY_CAP == 2     \* inline capacity of the MaybeTinyVec under test
MaxPush == 4      \* elements pushed into, or collected into, that vector
CAP == 3          \* inline capacity of the MaybeTinyCString under test
MaxStr == 4       \* length of the byte strings given to MaybeTinyCString::new
MaxPromote == 4   \* promotions on the pair of holders driven in lockstep

Rts == 1..NumRt
Objs == 1..MaxObjs
Recs == 1..MaxRecs
JobIds == 1..MaxJobs
ClassTypes == 1..NumClasses
Kinds == <<"ctx", "val", "atom">>
KindSet == {Kinds[i] : i \in 1..Len(Kinds)}

\* A Value of a plain variant (Int32, Bool, Null, ...) where an engine object is
\* expected: it is carried inline and has no object behind it.
Plain == 0

NoObj == [rt |-> 0, kind |-> "none", rc |-> 0, locals |-> 0, raws |-> 0]
NoRec == [rt |-> 0, kind |-> "none", obj |-> 0, strong |-> 0, pend |-> FALSE,
          attached |-> FALSE, value |-> "None"]
NoScan == [kind |-> "none", pos |-> 0, dead0 |-> {}]
NoRet == [op |-> "none", res |-> "none", obj |-> 0]
NoJobs == [list |-> <<>>, ran |-> [j \in JobIds |-> 0], n |-> 0, loop |-> "none", ctx |-> 0]

\* The class-id tables of one Runtime: the HashMap of the Running store, the
\* HashMap that Runtime::drop took out of it for the Destroying store, and the
\* engine's counter behind JS_NewClassID. No entry is 0.
NoClassIds == [run |-> [c \in ClassTypes |-> 0], des |-> [c \in ClassTypes |-> 0],
               next |-> 1]

\* The contents of a MaybeUninit slot that was never written.
Uninit == [id |-> 0, v |-> "uninit"]

\* TinyVec::new: CAP uninitialised slots, len 0.
TinyVec_new == [data |-> [i \in 1..TINY_CAP |-> Uninit], len |-> 0]

\* No vector yet: the variant and storage of the MaybeTinyVec under test (or of
\* the iterator it was turned into, with its position), the elements given to
\* it in order, the elements its iterator yielded and the elements dropped.
NoVec == [tag |-> "None", tiny |-> TinyVec_new, fat |-> <<>>, idx |-> 0,
          pushed |-> <<>>, out |-> <<>>, dropped |-> <<>>]

\* The bytes a string is made of; 0 is NUL. A slot that was never written
\* reads as NoByte.
Bytes == {0, 1, 2}
NoByte == -1

\* MaybeTinyCString::new not called yet on the input s: no result, no inline
\* buffer written, no heap string, no error position.
NoCStr == [s |-> <<>>, tag |-> "None", data |-> [i \in 1..CAP |-> NoByte], len |-> 0,
           wrote |-> {}, fat |-> <<>>, pos |-> NoByte]

\* Two holders, both empty: the eager one (utils.rs) with its Arc<GlobalRecord>s,
\* the dirty-flag one (utils/global.rs) with its Records and its flag; the
\* values promoted so far (value i is the i-th), the values whose one handle
\* is alive, what each holder released in the last step and how often each
\* value was released by each holder so far.
PromoteIds == 1..MaxPromote
NoPair == [eager |-> <<>>, records |-> <<>>, dirty |-> FALSE, n |-> 0,
           handles |-> {}, held |-> TRUE, freed_e |-> <<>>, freed_d |-> <<>>,
           count_e |-> [i \in PromoteIds |-> 0], count_d |-> [i \in PromoteIds |-> 0]]

VARIABLES
    store,    \* store[p]: tag of the RuntimeStore behind engine pointer p, or the
              \* position of Runtime::drop
    records,  \* records[p][k]: GlobalHolder.records of Runtime p's holder of kind k
    dirty,    \* dirty[p][k]: Shared.dirty of that holder
    scan,     \* scan[p]: the cleanup() in progress on Runtime p's thread
    recs,     \* recs[r]: Record r with the Arc<Ref> its handles share
    objs,     \* objs[o]: the engine object at address o with its reference count,
              \* the local wrappers that own one count each, and the counts that
              \* into_raw handed out as raw values
    ret,      \* what the last step returned to its caller
    released, \* the records whose value the last step passed to the release
              \* function, in call order
    jobs,     \* jobs[p]: the engine's job list of Runtime p, how often each job
              \* enqueued so far has run, and the execute_pending_jobs loop in
              \* progress on the Runtime's thread
    class_ids, \* class_ids[p]: the class-id tables of Runtime p
    tvec,     \* the MaybeTinyVec under test
    cstr,     \* the input and the result of MaybeTinyCString::new
    pair      \* an eager holder and a dirty-flag holder driven in lockstep

vars == <<store, records, dirty, scan, recs, objs, ret, released, jobs,
          class_ids, tvec, cstr, pair>>

Range(s) == {s[i] : i \in 1..Len(s)}

RemoveAt(s, i) == [j \in 1..(Len(s) - 1) |-> IF j < i THEN s[j] ELSE s[j + 1]]

Min(S) == CHOOSE x \in S : \A y \in S : x <= y

Init ==
    /\ store = [p \in Rts |-> "None"]
    /\ records = [p \in Rts |-> [k \in KindSet |-> <<>>]]
    /\ dirty = [p \in Rts |-> [k \in KindSet |-> FALSE]]
    /\ scan = [p \in Rts |-> NoScan]
    /\ recs = [r \in Recs |-> NoRec]
    /\ objs = [o \in Objs |-> NoObj]
    /\ ret = NoRet
    /\ released = <<>>
    /\ jobs = [p \in Rts |-> NoJobs]
    /\ class_ids = [p \in Rts |-> NoClassIds]
    /\ tvec = NoVec
    /\ cstr = NoCStr
    /\ pair = NoPair

\* ------------------------------------------------------------------ values
\* The variants of Value that wrap a pointer to a reference-counted engine
\* object, and those that carry their payload inline.
RefTags == {"BigInt", "Symbol", "String", "Module", "FunctionByteCode", "Object"}
PlainTags == {"Int32", "Bool", "Null", "Undefined", "Uninitialized", "CatchOffset",
              "Float64"}

\* f64 payloads, written in tenths: 1.5, 2.0 and, under its own code, NaN.
NaN == 99
Floats == {15, 20, NaN}

\* The payloads a plain variant can carry (0 where it carries none).
Payloads(t) ==
    CASE t \in {"Int32", "CatchOffset"} -> {0, 2}
      [] t = "Bool" -> {0, 1}
      [] t = "Float64" -> Floats
      [] OTHER -> {0}

\* A Value: the variant, the &Runtime of a RefValue (0 where the variant has
\* none) and the pointer or payload.
PlainValues == UNION {{[tag |-> t, rt |-> 0, u |-> x] : x \in Payloads(t)} : t \in PlainTags}
RefValues == [tag : RefTags, rt : Rts, u : Objs]

\* The Value that the client's wrapper around o is.
ValueOf(o) ==
    IF o = Plain THEN [tag |-> "Int32", rt |-> 0, u |-> 0]
    ELSE [tag |-> IF objs[o].kind \in RefTags THEN objs[o].kind ELSE "Object",
          rt |-> objs[o].rt, u |-> o]

\* A JSValue: the tag and the union of pointer and payload.
RawOf(t, x) == [tag |-> t, u |-> x]

NoValue == [tag |-> "none", rt |-> 0, u |-> 0]
NoRaw == RawOf("none", 0)

\* JS_NewFloat64: a double that is a whole number comes back as an integer,
\* which is why From<f64> matches on JS_TAG_INT.
JS_NewFloat64(f) ==
    IF f # NaN /\ f % 10 = 0 THEN RawOf("Int32", f \div 10) ELSE RawOf("Float64", f)

\* Value::as_raw
as_raw(v) ==
    CASE v.tag \in RefTags -> RawOf(v.tag, v.u)
      [] v.tag \in {"Int32", "CatchOffset"} -> RawOf(v.tag, v.u)
      [] v.tag = "Bool" -> RawOf("Bool", IF v.u # 0 THEN 1 ELSE 0)
      [] v.tag = "Float64" -> JS_NewFloat64(v.u)
      [] OTHER -> RawOf(v.tag, 0)

\* A from_raw that wraps a Symbol as a BigInt.
from_raw_bigint(p, raw) ==
    IF raw.tag \in RefTags
    THEN [tag |-> IF raw.tag = "Symbol" THEN "BigInt" ELSE raw.tag, rt |-> p, u |-> raw.u]
    ELSE [tag |-> raw.tag, rt |-> 0, u |-> raw.u]

\* Value::from_raw(rt, raw) for the tags other than JS_TAG_EXCEPTION.
from_raw(p, raw) ==
    CASE raw.tag \in RefTags -> [tag |-> raw.tag, rt |-> p, u |-> raw.u]
      [] raw.tag = "Bool" -> [tag |-> "Bool", rt |-> 0, u |-> IF raw.u # 0 THEN 1 ELSE 0]
      [] raw.tag \in {"Int32", "CatchOffset", "Float64"} ->
             [tag |-> raw.tag, rt |-> 0, u |-> raw.u]
      [] OTHER -> [tag |-> raw.tag, rt |-> 0, u |-> 0]

\* An equality of RefValues that compares the pointers only.
RefValue_eq_ptr(v, w) == v.u = w.u

\* PartialEq for RefValue: the Runtime's pointer and the object's pointer.
RefValue_eq(v, w) == v.rt = w.rt /\ v.u = w.u

\* #[derive(PartialEq)] for Value: the same variant and equal fields; two f64
\* are equal when neither is NaN and they are the same number.
Value_eq(v, w) ==
    /\ v.tag = w.tag
    /\ CASE v.tag \in RefTags -> RefValue_eq(v, w)
         [] v.tag = "Float64" -> v.u # NaN /\ v.u = w.u
         [] OTHER -> v.u = w.u

\* An into_raw that forgets no wrapper.
Detaches_none(t) == FALSE

\* The variants whose wrapper Value::into_raw passes to detach_ptr, which
\* forgets it; the wrapper of any other variant is dropped at the end of its
\* match arm.
Detaches(t) == t \in {"String", "Module", "FunctionByteCode", "Object"}

\* ------------------------------------------------------------- the engine
\* JS_DupValueRT / JS_DupContext / JS_DupAtom on the object at address o.
EngineDup(os, o) ==
    IF o = Plain \/ os[o] = NoObj THEN os ELSE [os EXCEPT ![o].rc = @ + 1]

\* JS_FreeValueRT / JS_FreeContext / JS_FreeAtomRT: the object is destroyed when
\* its last reference goes.
EngineFree(os, o) ==
    IF o = Plain \/ os[o] = NoObj THEN os
    ELSE IF os[o].rc <= 1 THEN [os EXCEPT ![o] = NoObj]
    ELSE [os EXCEPT ![o].rc = @ - 1]

\* A store whose every reader takes the Running arm.
StoreTag_running(p) == "Running"

\* The variant a `match self.store()` finds behind engine pointer p. Runtime::drop
\* writes the Destroying store only after the Running one was dropped in place.
StoreTag(p) ==
    IF store[p] \in {"Running", "DropContexts", "DropRefs", "DropAtoms"}
    THEN "Running" ELSE store[p]

\* What a reader of the store finds: the Running store as Runtime::new and
\* get_or_alloc_class_id built it, the Running store after Runtime::drop took
\* its class-id table, or the Destroying store that the table was moved into.
StoreView(p) ==
    IF store[p] \in {"DropContexts", "DropRefs", "DropAtoms"}
    THEN "RunningEmptied" ELSE store[p]

\* Runtime::get_or_alloc_class_id for the class of a live instance: the id the
\* class was registered with, or, when a Running store has no entry, a new one.
get_or_alloc_class_id(p) ==
    IF StoreView(p) = "RunningEmptied" THEN "fresh" ELSE "registered"

\* The class of the instances that Context::new_object_class creates here.
InstanceClass == 1

\* Runtime::get_or_alloc_class_id::<C> for class type c on the tables ci, read
\* through a store of variant tag: the id it returns (0 when the expect() on
\* the Destroying table panics) and the tables it leaves behind. A Running
\* table without an entry gets one from JS_NewClassID.
alloc_class_id(ci, tag, c) ==
    IF tag = "Destroying" THEN [id |-> ci.des[c], ids |-> ci]
    ELSE IF ci.run[c] # 0 THEN [id |-> ci.run[c], ids |-> ci]
    ELSE [id |-> ci.next, ids |-> [ci EXCEPT !.run[c] = ci.next, !.next = @ + 1]]

\* The class finalizer: JS_GetOpaque answers null for any id but the instance's
\* own, and then the boxed Rust value is not dropped.
finalizer(p) ==
    IF get_or_alloc_class_id(p) = "registered" THEN "dropped" ELSE "leaked"

\* The class instances that a step destroyed, each of which had its finalizer
\* called by the engine from inside the step.
Finalized(os) == {o \in Objs : objs[o].kind = "cls" /\ os[o] = NoObj}

\* What the step leaves behind for its caller: nothing, or, when the engine
\* called a finalizer on Runtime p, the store the finalizer read.
FinalizerRet(os, p) ==
    IF Finalized(os) = {} THEN NoRet
    ELSE [op |-> "finalizer", res |-> StoreView(p), obj |-> Min(Finalized(os))]

\* The Runtime's thread holds &Runtime and is neither inside a cleanup() nor
\* inside execute_pending_jobs.
Idle(p) == store[p] = "Running" /\ scan[p] = NoScan /\ jobs[p].loop = "none"

\* The caller holds a Context of Runtime p. The engine objects of Runtime 1 are
\* tracked one by one; of any other Runtime the client holds a Context for as
\* long as that Runtime is alive.
HasContext(p) ==
    \/ p # 1
    \/ \E o \in Objs : objs[o].rt = p /\ objs[o].kind = "ctx" /\ objs[o].locals > 0

FreeObjSlots == {o \in Objs : objs[o] = NoObj}

\* Runtime::new
Runtime_new(p) ==
    /\ store[p] = "None"
    /\ store' = [store EXCEPT ![p] = "Running"]
    /\ records' = [records EXCEPT ![p] = [k \in KindSet |-> <<>>]]
    /\ dirty' = [dirty EXCEPT ![p] = [k \in KindSet |-> FALSE]]
    /\ class_ids' = [class_ids EXCEPT ![p] = NoClassIds]
    /\ ret' = NoRet /\ released' = <<>>
    /\ UNCHANGED <<scan, recs, objs, jobs, tvec, cstr, pair>>

\* Runtime::new_context, and the Context methods that create a value ("val"),
\* an instance of a registered class ("cls", Context::new_object_class) or an
\* atom.
NewObject(p, k) ==
    /\ Idle(p)
    /\ k # "ctx" => HasContext(p)
    /\ FreeObjSlots # {}
    /\ objs' = [objs EXCEPT ![Min(FreeObjSlots)] =
                    [rt |-> p, kind |-> k, rc |-> 1, locals |-> 1, raws |-> 0]]
    /\ class_ids' = IF k = "cls"
                    THEN [class_ids EXCEPT ![p] =
                              alloc_class_id(@, StoreTag(p), InstanceClass).ids]
                    ELSE class_ids
    /\ ret' = NoRet /\ released' = <<>>
    /\ UNCHANGED <<store, records, dirty, scan, recs, jobs, tvec, cstr, pair>>

\* Context::get_class_opaque::<C>(&value) for class type c: the class id is
\* looked up, and allocated when C has none yet, before the value is asked for
\* its opaque pointer.
get_class_opaque(p, c) ==
    /\ Idle(p) /\ HasContext(p)
    /\ \E o \in Objs : objs[o].rt = p /\ objs[o].kind \in {"val", "cls"} /\ objs[o].locals > 0
    /\ class_ids' = [class_ids EXCEPT ![p] = alloc_class_id(@, StoreTag(p), c).ids]
    /\ ret' = [op |-> "get_class_opaque", res |-> "Ok",
               obj |-> alloc_class_id(class_ids[p], StoreTag(p), c).id]
    /\ released' = <<>>
    /\ UNCHANGED <<store, records, dirty, scan, recs, objs, jobs, tvec, cstr, pair>>

\* Context::set_property(&obj, &prop, value) and its like, called so that the
\* object becomes reachable from itself: the engine holds a reference to the
\* value, to the key's atom and to the realm's Context, and gives them up when
\* JS_FreeRuntime collects the cycle.
set_property(o) ==
    /\ objs[o] # NoObj /\ objs[o].locals > 0
    /\ Idle(objs[o].rt)
    /\ objs[o].rc = objs[o].locals + Cardinality({r \in Recs :
            recs[r].obj = o /\ recs[r].value = "Some" /\ recs[r].attached})
    /\ objs' = EngineDup(objs, o)
    /\ ret' = NoRet /\ released' = <<>>
    /\ UNCHANGED <<store, records, dirty, scan, recs, jobs, class_ids, tvec, cstr, pair>>

\* Drop for Context / Drop for RefValue / Drop for Atom. The Context's drop
\* is taken in one step when execute_pending_jobs finds no job.
Local_drop(o) ==
    /\ objs[o] # NoObj /\ objs[o].locals > 0
    /\ objs[o].kind = "ctx" => jobs[objs[o].rt].list = <<>>
    /\ Idle(objs[o].rt)
    /\ objs' = EngineFree([objs EXCEPT ![o].locals = @ - 1], o)
    /\ ret' = FinalizerRet(objs', objs[o].rt) /\ released' = <<>>
    /\ UNCHANGED <<store, records, dirty, scan, recs, jobs, class_ids, tvec, cstr, pair>>

\* Clone for Context: JS_DupContext, and a second wrapper of the same pointer.
Context_clone(o) ==
    /\ objs[o].kind = "ctx" /\ objs[o].locals > 0 /\ objs[o].locals < MaxLocals
    /\ Idle(objs[o].rt)
    /\ objs' = [EngineDup(objs, o) EXCEPT ![o].locals = @ + 1]
    /\ ret' = [op |-> "clone", res |-> "Ok", obj |-> o] /\ released' = <<>>
    /\ UNCHANGED <<store, records, dirty, scan, recs, jobs, class_ids, tvec, cstr, pair>>

\* What the function of a job does when the engine calls it: it returns, it
\* throws, or it enqueues one more job before it returns.
JobKinds == {"plain", "throws", "spawn"}

\* Context::enqueue_job(closure) on the Context at o: JS_EnqueueJob appends the
\* job to the Runtime's list.
enqueue_job(o, kind) ==
    /\ objs[o].kind = "ctx" /\ objs[o].locals > 0
    /\ Idle(objs[o].rt)
    /\ jobs[objs[o].rt].n < MaxJobs
    /\ jobs' = [jobs EXCEPT ![objs[o].rt] =
                    [@ EXCEPT !.n = @ + 1,
                              !.list = Append(@, [id |-> jobs[objs[o].rt].n + 1,
                                                  ctx |-> o, kind |-> kind])]]
    /\ ret' = [op |-> "enqueue_job", res |-> "Ok", obj |-> o] /\ released' = <<>>
    /\ UNCHANGED <<store, records, dirty, scan, recs, objs, class_ids, tvec, cstr, pair>>

\* Runtime::execute_pending_jobs, entry: the loop starts.
execute_pending_jobs(p) ==
    /\ Idle(p)
    /\ jobs' = [jobs EXCEPT ![p].loop = "exec"]
    /\ ret' = NoRet /\ released' = <<>>
    /\ UNCHANGED <<store, records, dirty, scan, recs, objs, class_ids, tvec, cstr, pair>>

\* A Context drop that releases its reference without running the jobs.
Context_drop_now(o) ==
    /\ objs[o].kind = "ctx" /\ objs[o].locals > 0
    /\ Idle(objs[o].rt)
    /\ objs' = EngineFree([objs EXCEPT ![o].locals = @ - 1], o)
    /\ ret' = [op |-> "drop_context", res |-> "done", obj |-> o] /\ released' = <<>>
    /\ UNCHANGED <<store, records, dirty, scan, recs, jobs, class_ids, tvec, cstr, pair>>

\* Drop for Context, entry: self.rt.execute_pending_jobs() starts, with
\* JS_FreeContext(self.ptr) to follow.
Context_drop(o) ==
    /\ objs[o].kind = "ctx" /\ objs[o].locals > 0
    /\ Idle(objs[o].rt)
    /\ jobs' = [jobs EXCEPT ![objs[o].rt].loop = "drop", ![objs[o].rt].ctx = o]
    /\ ret' = NoRet /\ released' = <<>>
    /\ UNCHANGED <<store, records, dirty, scan, recs, objs, class_ids, tvec, cstr, pair>>

\* JS_ExecutePendingJob's answer: 0 when no job is pending; else the first job
\* is taken off the list and called, and the answer is 1, or negative when the
\* job threw.
JobResult(js) ==
    IF js.list = <<>> THEN 0 ELSE IF Head(js.list).kind = "throws" THEN -1 ELSE 1

\* A loop that goes on only after a job that returned normally.
LoopContinues_positive(res) == res > 0

\* The loop's test: while JS_ExecutePendingJob(..) != 0.
LoopContinues(res) == res # 0

\* The job list after one JS_ExecutePendingJob call: the first job is gone and
\* counted as run; what it enqueued is at the end.
AfterJob(js) ==
    LET j == Head(js.list)
        more == j.kind = "spawn" /\ js.n < MaxJobs
    IN [js EXCEPT !.ran[j.id] = @ + 1,
                  !.n = IF more THEN @ + 1 ELSE @,
                  !.list = IF more
                           THEN Append(Tail(@), [id |-> js.n + 1, ctx |-> j.ctx,
                                                 kind |-> "plain"])
                           ELSE Tail(@)]

\* One turn of the loop of execute_pending_jobs on Runtime p: the call of
\* JS_ExecutePendingJob and the test of its answer. When the loop ends inside
\* a Context's drop, JS_FreeContext releases that Context's reference.
JS_ExecutePendingJob(p) ==
    /\ jobs[p].loop # "none"
    /\ LET res == JobResult(jobs[p])
           js == IF res = 0 THEN jobs[p] ELSE AfterJob(jobs[p])
           o == jobs[p].ctx
       IN IF LoopContinues(res)
          THEN /\ jobs' = [jobs EXCEPT ![p] = js]
               /\ objs' = objs
               /\ ret' = [op |-> "job", res |-> "ran", obj |-> Head(jobs[p].list).id]
          ELSE /\ jobs' = [jobs EXCEPT ![p] = [js EXCEPT !.loop = "none", !.ctx = 0]]
               /\ objs' = IF jobs[p].loop = "drop"
                          THEN EngineFree([objs EXCEPT ![o].locals = @ - 1], o)
                          ELSE objs
               /\ ret' = [op |-> IF jobs[p].loop = "drop" THEN "drop_context"
                                 ELSE "execute_pending_jobs",
                          res |-> "done", obj |-> o]
    /\ released' = <<>>
    /\ UNCHANGED <<store, records, dirty, scan, recs, class_ids, tvec, cstr, pair>>

\* What an operation on a Value hands back: the Value it was applied to, the
\* JSValue and the Value it produced.
ValueRet(op, res, o, src, raw, val) ==
    [op |-> op, res |-> res, obj |-> o, src |-> src, raw |-> raw, val |-> val]

\* Clone for RefValue: JS_DupValueRT, and a second wrapper of the same pointer.
Value_clone(o) ==
    /\ objs[o].kind \in RefTags /\ objs[o].locals > 0
    /\ objs[o].locals + objs[o].raws < MaxLocals
    /\ Idle(objs[o].rt)
    /\ objs' = [EngineDup(objs, o) EXCEPT ![o].locals = @ + 1]
    /\ ret' = ValueRet("clone", "Ok", o, ValueOf(o), NoRaw, ValueOf(o))
    /\ released' = <<>>
    /\ UNCHANGED <<store, records, dirty, scan, recs, jobs, class_ids, tvec, cstr, pair>>

\* Value::as_raw(&self)
Value_as_raw(o) ==
    /\ objs[o].kind \in RefTags /\ objs[o].locals > 0
    /\ ret' = ValueRet("as_raw", "Ok", o, ValueOf(o), as_raw(ValueOf(o)), NoValue)
    /\ released' = <<>>
    /\ UNCHANGED <<store, records, dirty, scan, recs, objs, jobs, class_ids, tvec, cstr, pair>>

\* Value::into_raw(self): the raw value goes to the caller; the wrapper is
\* forgotten by detach_ptr or, in the arms that read v.ptr directly, dropped.
Value_into_raw(o) ==
    /\ objs[o].kind \in RefTags /\ objs[o].locals > 0
    /\ Idle(objs[o].rt)
    /\ LET moved == [objs EXCEPT ![o].locals = @ - 1, ![o].raws = @ + 1]
       IN objs' = IF Detaches(objs[o].kind) THEN moved ELSE EngineFree(moved, o)
    /\ ret' = ValueRet("into_raw", "Ok", o, ValueOf(o), as_raw(ValueOf(o)), NoValue)
    /\ released' = <<>>
    /\ UNCHANGED <<store, records, dirty, scan, recs, jobs, class_ids, tvec, cstr, pair>>

\* Value::from_raw(rt, v.into_raw()): the raw value that into_raw has just
\* returned is wrapped again, under the Runtime it came from. The wrapper adopts
\* the count that came with the raw value; when that object is gone the
\* wrapper dangles.
Value_from_raw ==
    /\ ret.op = "into_raw"
    /\ LET o == ret.obj
           adopts == IF o = Plain THEN FALSE ELSE objs[o] # NoObj /\ objs[o].raws > 0
       IN objs' = IF adopts
                  THEN [objs EXCEPT ![o].raws = @ - 1, ![o].locals = @ + 1] ELSE objs
    /\ ret' = ValueRet("from_raw", "Ok", ret.obj, ret.src, ret.raw,
                       from_raw(ret.src.rt, ret.raw))
    /\ released' = <<>>
    /\ UNCHANGED <<store, records, dirty, scan, recs, jobs, class_ids, tvec, cstr, pair>>

\* The owner of a raw value releases its count (JS_FreeValueRT), as the engine
\* does with the values that set_property and its like hand over.
JS_FreeValue(o) ==
    /\ objs[o] # NoObj /\ objs[o].raws > 0
    /\ Idle(objs[o].rt)
    /\ objs' = EngineFree([objs EXCEPT ![o].raws = @ - 1], o)
    /\ ret' = NoRet /\ released' = <<>>
    /\ UNCHANGED <<store, records, dirty, scan, recs, jobs, class_ids, tvec, cstr, pair>>

\* clone, as_raw, into_raw and drop on a Value of a plain variant: the payload
\* is copied, no engine call is made.
Value_plain(op, v) ==
    /\ ret' = ValueRet(op, "Ok", Plain, v,
                       IF op \in {"as_raw", "into_raw"} THEN as_raw(v) ELSE NoRaw,
                       IF op = "clone" THEN v ELSE NoValue)
    /\ released' = <<>>
    /\ UNCHANGED <<store, records, dirty, scan, recs, objs, jobs, class_ids, tvec, cstr, pair>>

\* v == w on two Values.
Value_compare(v, w) ==
    /\ ret' = ValueRet("eq", IF Value_eq(v, w) THEN "true" ELSE "false", Plain, v,
                       NoRaw, w)
    /\ released' = <<>>
    /\ UNCHANGED <<store, records, dirty, scan, recs, objs, jobs, class_ids, tvec, cstr, pair>>

\* --------------------------------------------------------- GlobalHolder
InHolder(rs, r) == \E p \in Rts, k \in KindSet : r \in Range(rs[p][k])

\* A Record slot is forgotten once nothing refers to it: no handle, no
\* Ref::drop in flight, no holder entry, no engine reference kept in it.
Forget(rc, rs) ==
    [r \in Recs |->
        IF rc[r].strong = 0 /\ ~rc[r].pend /\ ~InHolder(rs, r) /\ rc[r].value = "None"
        THEN NoRec ELSE rc[r]]

FreeRecSlots == {r \in Recs : recs[r] = NoRec}

\* A push that resets the dirty flag.
push_clean(p, k, o) ==
    /\ FreeRecSlots # {}
    /\ recs' = [recs EXCEPT ![Min(FreeRecSlots)] =
                    [rt |-> p, kind |-> k, obj |-> o, strong |-> 1, pend |-> FALSE,
                     attached |-> TRUE, value |-> "Some"]]
    /\ records' = [records EXCEPT ![p][k] = Append(@, Min(FreeRecSlots))]
    /\ dirty' = [dirty EXCEPT ![p][k] = FALSE]

\* GlobalHolder::push: one Arc<Ref> (strong count 1), one Record appended; the
\* dirty flag is not touched and nothing is swept.
push(p, k, o) ==
    /\ FreeRecSlots # {}
    /\ recs' = [recs EXCEPT ![Min(FreeRecSlots)] =
                    [rt |-> p, kind |-> k, obj |-> o, strong |-> 1, pend |-> FALSE,
                     attached |-> TRUE, value |-> "Some"]]
    /\ records' = [records EXCEPT ![p][k] = Append(@, Min(FreeRecSlots))]
    /\ dirty' = dirty

\* Alternatives to the retain_mut closure: one that keeps every record, one
\* that keeps none.
RetainLive_every(r) == TRUE

RetainLive_none(r) == FALSE

\* The closure of retain_mut: v.refs.strong_count() > 0.
RetainLive(r) == recs[r].strong > 0

\* A cleanup() that leaves the flag set.
SwapTo_true == TRUE

\* What cleanup() leaves in the flag: dirty.swap(false).
SwapTo == FALSE

\* A record that no handle refers to and whose last handle has finished
\* dropping.
Dead(r) == recs[r].strong = 0 /\ ~recs[r].pend

DeadIn(p, k) == {r \in Range(records[p][k]) : Dead(r)}

\* GlobalHolder::cleanup, first half: swap the flag; return at once when it was
\* false, else start retain_mut at the first record.
cleanup_swap(p, k) ==
    /\ Idle(p)
    /\ dirty' = [dirty EXCEPT ![p][k] = SwapTo]
    /\ scan' = [scan EXCEPT ![p] =
                   IF dirty[p][k] /\ records[p][k] # <<>>
                   THEN [kind |-> k, pos |-> 1, dead0 |-> DeadIn(p, k)]
                   ELSE NoScan]
    /\ ret' = [op |-> "cleanup", res |-> "none", obj |-> 0] /\ released' = <<>>
    /\ UNCHANGED <<store, records, recs, objs, jobs, class_ids, tvec, cstr, pair>>

\* GlobalHolder::cleanup, second half: retain_mut visits the record at scan.pos;
\* an unreferenced record has its value taken and released and is removed.
cleanup_retain(p) ==
    /\ scan[p] # NoScan
    /\ LET k == scan[p].kind
           i == scan[p].pos
           r == records[p][k][i]
           keep == RetainLive(r)
           free == ~keep /\ recs[r].value = "Some"
           left == [records EXCEPT ![p][k] = IF keep THEN @ ELSE RemoveAt(@, i)]
           j == IF keep THEN i + 1 ELSE i
       IN /\ records' = left
          /\ recs' = Forget(IF free THEN [recs EXCEPT ![r].value = "None"] ELSE recs, left)
          /\ objs' = IF free THEN EngineFree(objs, recs[r].obj) ELSE objs
          /\ released' = IF free THEN <<r>> ELSE <<>>
          /\ scan' = [scan EXCEPT ![p] =
                         IF j > Len(left[p][k]) THEN NoScan ELSE [@ EXCEPT !.pos = j]]
    /\ ret' = FinalizerRet(objs', p)
    /\ UNCHANGED <<store, dirty, jobs, class_ids, tvec, cstr, pair>>

RECURSIVE FreeAll(_, _)
FreeAll(os, s) ==
    IF s = <<>> THEN os
    ELSE FreeAll(IF recs[Head(s)].value = "Some"
                 THEN EngineFree(os, recs[Head(s)].obj) ELSE os, Tail(s))

\* A holder drop that releases only the records no handle refers to.
GlobalHolder_drop_unreferenced(p, k) ==
    /\ recs' = Forget([r \in Recs |->
                  IF recs[r].rt = p /\ recs[r].kind = k /\ recs[r].attached
                  THEN IF r \in Range(records[p][k]) /\ recs[r].strong = 0
                       THEN [recs[r] EXCEPT !.attached = FALSE, !.value = "None"]
                       ELSE [recs[r] EXCEPT !.attached = FALSE]
                  ELSE recs[r]], [records EXCEPT ![p][k] = <<>>])
    /\ objs' = FreeAll(objs, SelectSeq(records[p][k], LAMBDA r : recs[r].strong = 0))
    /\ released' = SelectSeq(records[p][k],
                             LAMBDA r : recs[r].value = "Some" /\ recs[r].strong = 0)
    /\ records' = [records EXCEPT ![p][k] = <<>>]

\* A holder without a destructor of its own: the Vec of records is dropped and
\* no value is passed to the release function.
GlobalHolder_drop_forget(p, k) ==
    /\ recs' = [r \in Recs |->
                  IF recs[r].rt = p /\ recs[r].kind = k /\ recs[r].attached
                  THEN [recs[r] EXCEPT !.attached = FALSE] ELSE recs[r]]
    /\ objs' = objs
    /\ released' = <<>>
    /\ records' = [records EXCEPT ![p][k] = <<>>]

\* Drop for GlobalHolder: every record still registered is released, whether
\* or not a handle to it is alive; the Shared stays with the handles.
GlobalHolder_drop(p, k) ==
    /\ recs' = Forget([r \in Recs |->
                  IF recs[r].rt = p /\ recs[r].kind = k /\ recs[r].attached
                  THEN IF r \in Range(records[p][k])
                       THEN [recs[r] EXCEPT !.attached = FALSE, !.value = "None"]
                       ELSE [recs[r] EXCEPT !.attached = FALSE]
                  ELSE recs[r]], [records EXCEPT ![p][k] = <<>>])
    /\ objs' = FreeAll(objs, records[p][k])
    /\ released' = SelectSeq(records[p][k], LAMBDA r : recs[r].value = "Some")
    /\ records' = [records EXCEPT ![p][k] = <<>>]

\* ------------------------------------------------------ Global handles
\* A handle clone that duplicates the engine reference of its record.
Global_clone_dup(r) ==
    /\ recs[r].strong > 0 /\ recs[r].strong < MaxHandles
    /\ recs' = [recs EXCEPT ![r].strong = @ + 1]
    /\ objs' = EngineDup(objs, recs[r].obj)
    /\ ret' = NoRet /\ released' = <<>>
    /\ UNCHANGED <<store, records, dirty, scan, jobs, class_ids, tvec, cstr, pair>>

\* Clone for Global: Arc::clone of the shared Ref, no record, no engine call.
Global_clone(r) ==
    /\ recs[r].strong > 0 /\ recs[r].strong < MaxHandles
    /\ recs' = [recs EXCEPT ![r].strong = @ + 1]
    /\ ret' = NoRet /\ released' = <<>>
    /\ UNCHANGED <<store, records, dirty, scan, objs, jobs, class_ids, tvec, cstr, pair>>

\* Dropping a Global: Arc<Ref>'s strong count is decremented; the thread that
\* brings it to zero goes on to run Ref::drop.
Global_drop(r) ==
    /\ recs[r].strong > 0
    /\ recs' = [recs EXCEPT ![r].strong = @ - 1, ![r].pend = (recs[r].strong = 1)]
    /\ ret' = NoRet /\ released' = <<>>
    /\ UNCHANGED <<store, records, dirty, scan, objs, jobs, class_ids, tvec, cstr, pair>>

\* A Ref::drop that does not store to the flag.
Ref_drop_silent(r) ==
    /\ recs[r].pend
    /\ recs' = Forget([recs EXCEPT ![r].pend = FALSE], records)
    /\ dirty' = dirty
    /\ ret' = NoRet /\ released' = <<>>
    /\ UNCHANGED <<store, records, scan, objs, jobs, class_ids, tvec, cstr, pair>>

\* A Ref::drop that releases its record on the dropping thread.
Ref_drop_eager(r) ==
    /\ recs[r].pend
    /\ LET p == recs[r].rt
           k == recs[r].kind
           here == recs[r].attached /\ r \in Range(records[p][k]) /\ scan[p] = NoScan
           left == IF here
                   THEN [records EXCEPT ![p][k] = SelectSeq(@, LAMBDA x : x # r)]
                   ELSE records
       IN /\ records' = left
          /\ recs' = Forget([recs EXCEPT ![r].pend = FALSE,
                                         ![r].value = IF here THEN "None" ELSE @], left)
          /\ objs' = IF here /\ recs[r].value = "Some"
                     THEN EngineFree(objs, recs[r].obj) ELSE objs
          /\ released' = IF here /\ recs[r].value = "Some" THEN <<r>> ELSE <<>>
    /\ ret' = NoRet
    /\ UNCHANGED <<store, dirty, scan, jobs, class_ids, tvec, cstr, pair>>

\* A Ref::drop that passes its record's value to the release function.
Ref_drop_release(r) ==
    /\ recs[r].pend
    /\ recs' = Forget([recs EXCEPT ![r].pend = FALSE, ![r].value = "None"], records)
    /\ dirty' = dirty
    /\ objs' = EngineFree(objs, recs[r].obj)
    /\ ret' = NoRet /\ released' = <<r>>
    /\ UNCHANGED <<store, records, scan, jobs, class_ids, tvec, cstr, pair>>

\* Ref::drop: shared.dirty.store(true). The Shared of a holder that has been
\* dropped is read by nobody.
Ref_drop(r) ==
    /\ recs[r].pend
    /\ recs' = Forget([recs EXCEPT ![r].pend = FALSE], records)
    /\ dirty' = IF recs[r].attached
                THEN [dirty EXCEPT ![recs[r].rt][recs[r].kind] = TRUE]
                ELSE dirty
    /\ ret' = NoRet /\ released' = <<>>
    /\ UNCHANGED <<store, records, scan, objs, jobs, class_ids, tvec, cstr, pair>>

\* ------------------------------------------------------- Runtime glue
\* A promotion that accepts a value of any Runtime.
ValueMismatch_never(p, o) == FALSE

\* Value::get_runtime: the Runtime of a reference-counted variant, None (0) for
\* a plain one.
get_runtime(v) == IF v.tag \in RefTags THEN v.rt ELSE 0

\* enforce_value_in_same_runtime on a Context of Runtime p: TRUE when the
\* assertion holds.
enforce_value_in_same_runtime(p, v) ==
    IF get_runtime(v) = 0 THEN TRUE ELSE get_runtime(v) = p

\* A test that takes a Value without a Runtime for a foreign one.
ValueMismatch_strict(p, o) == get_runtime(ValueOf(o)) # p

\* new_global_value's test: matches!(value.get_runtime(), Some(rt) if rt.rt_ptr
\* != self.rt_ptr).
ValueMismatch(p, o) == get_runtime(ValueOf(o)) # 0 /\ get_runtime(ValueOf(o)) # p

\* new_global_context's test: self.rt_ptr != ctx.rt.rt_ptr.
ContextMismatch(p, o) == objs[o].rt # p

\* A promotion that stores the source's own reference without duplicating it.
PromoteDup_none(os, o) == os

\* The reference a promotion stores in its record: the engine's duplicate of
\* the source (JS_DupValueRT / JS_DupContext / JS_DupAtom), not the source's own.
PromoteDup(os, o) == EngineDup(os, o)

Fail(op, res) ==
    /\ ret' = [op |-> op, res |-> res, obj |-> 0] /\ released' = <<>>
    /\ UNCHANGED <<store, records, dirty, scan, recs, objs, jobs, class_ids, tvec, cstr, pair>>

\* Runtime::drop has already dropped the holder of kind k in place, and has not
\* yet overwritten it with the Destroying store.
HolderDropped(p, k) ==
    \/ k = "ctx" /\ store[p] \in {"DropRefs", "DropAtoms"}
    \/ k = "val" /\ store[p] = "DropAtoms"

\* GlobalHolder::push on a holder that was dropped in place: the Record goes
\* into a new buffer of the emptied Vec, which no sweep and no destructor will
\* visit, so its reference is never released.
push_dropped(p, k, o) ==
    /\ FreeRecSlots # {}
    /\ recs' = [recs EXCEPT ![Min(FreeRecSlots)] =
                    [rt |-> p, kind |-> k, obj |-> o, strong |-> 1, pend |-> FALSE,
                     attached |-> FALSE, value |-> "Some"]]
    /\ records' = records
    /\ dirty' = dirty

\* The body shared by the promotions once the identity test has passed: the
\* store must be Running (a Destroying store panics), the source is duplicated
\* and the duplicate pushed.
Register(op, p, k, o) ==
    IF StoreTag(p) = "Running"
    THEN /\ IF HolderDropped(p, k) THEN push_dropped(p, k, o) ELSE push(p, k, o)
         /\ objs' = PromoteDup(objs, o)
         /\ ret' = [op |-> op, res |-> "Ok", obj |-> o] /\ released' = <<>>
         /\ UNCHANGED <<store, scan, jobs, class_ids, tvec, cstr, pair>>
    ELSE Fail(op, "panic")

\* The wrapper's variant: a Value wraps a plain payload, a value object or a
\* class instance; a Context and an Atom wrap objects of their own kind.
Wraps(k, o) ==
    IF o = Plain THEN k = "val"
    ELSE IF k = "val" THEN objs[o].kind \in {"val", "cls"} ELSE objs[o].kind = k

\* The client holds a local wrapper of kind k around o.
Holds(k, o) == Wraps(k, o) /\ (IF o = Plain THEN TRUE ELSE objs[o].locals > 0)

\* Runtime::new_global_value(&value), from its identity test on
Promote_value(p, o) ==
    IF ValueMismatch(p, o)
    THEN Fail("new_global_value", "InvalidRuntime")
    ELSE Register("new_global_value", p, "val", o)

\* Runtime::new_global_context(&ctx), from its identity test on
Promote_context(p, o) ==
    IF ContextMismatch(p, o)
    THEN Fail("new_global_context", "InvalidRuntime")
    ELSE Register("new_global_context", p, "ctx", o)

\* Context::new_global_atom(&atom) on a Context of Runtime p, from
\* enforce_atom_in_same_runtime on: it asserts, so a foreign atom panics.
Promote_atom(p, o) ==
    IF objs[o].rt # p
    THEN Fail("new_global_atom", "panic")
    ELSE Register("new_global_atom", p, "atom", o)

\* Runtime::new_global_value(&value)
new_global_value(p, o) ==
    /\ Idle(p) /\ Holds("val", o)
    /\ Promote_value(p, o)

\* Runtime::new_global_context(&ctx)
new_global_context(p, o) ==
    /\ Idle(p) /\ Holds("ctx", o)
    /\ Promote_context(p, o)

\* Context::new_global_atom(&atom)
new_global_atom(p, o) ==
    /\ Idle(p) /\ HasContext(p) /\ Holds("atom", o)
    /\ Promote_atom(p, o)

\* Runtime::drop is running on Runtime p: the engine calls back into Rust (class
\* finalizers, release callbacks) with the raw runtime pointer, around which
\* the callee builds a Runtime as the finalizer does.
InCallback(p) == store[p] \in {"DropContexts", "DropRefs", "DropAtoms", "Destroying"}

\* A promotion attempted from such a callback, on a plain value or on a wrapper
\* made around an object the engine still holds.
callback_promote(p, k, o) ==
    /\ InCallback(p)
    /\ Wraps(k, o) /\ (IF o = Plain THEN TRUE ELSE objs[o] # NoObj /\ objs[o].rt = p)
    /\ CASE k = "val" -> Promote_value(p, o)
         [] k = "ctx" -> Promote_context(p, o)
         [] OTHER -> Promote_atom(p, o)

\* A Global::get that does not compare identities.
GetMatches_any(r, p) == TRUE

\* Global::get: self.reference.shared.runtime == rt.
GetMatches(r, p) == recs[r].rt = p

\* A to_local that wraps the handle's own copy without duplicating it.
Resolve_borrow(o) ==
    IF o = Plain
    THEN /\ objs' = objs
         /\ ret' = [op |-> "to_local", res |-> "Ok", obj |-> o]
    ELSE /\ objs[o].locals < MaxLocals
         /\ objs' = [objs EXCEPT ![o].locals = @ + 1]
         /\ ret' = [op |-> "to_local", res |-> "Ok", obj |-> o]

\* The local wrapper to_local builds: the engine's duplicate of the raw value.
Resolve(o) ==
    IF o = Plain
    THEN /\ objs' = objs
         /\ ret' = [op |-> "to_local", res |-> "Ok", obj |-> o]
    ELSE /\ objs[o].locals < MaxLocals
         /\ objs' = [EngineDup(objs, o) EXCEPT ![o].locals = @ + 1]
         /\ ret' = [op |-> "to_local", res |-> "Ok", obj |-> o]

\* GlobalValue::to_local(&rt), GlobalContext::to_local(&rt) and
\* GlobalAtom::to_local(&ctx) with a Context of Runtime p. Global::get hands out
\* the handle's own copy of the raw value; the caller duplicates it and wraps
\* the duplicate. A handle whose record was released with its holder carries a
\* dangling copy: duplicating it is undefined, and may abort or touch whatever
\* now lives at that address.
to_local(r, p) ==
    /\ Idle(p)
    /\ recs[r].strong > 0
    /\ recs[r].kind = "atom" => HasContext(p)
    /\ IF ~GetMatches(r, p)
       THEN ret' = [op |-> "to_local", res |-> "InvalidRuntime", obj |-> 0] /\ objs' = objs
       ELSE IF recs[r].value = "Some"
       THEN Resolve(recs[r].obj)
       ELSE \/ ret' = [op |-> "to_local", res |-> "abort", obj |-> 0] /\ objs' = objs
            \/ /\ IF recs[r].obj = Plain THEN TRUE ELSE objs[recs[r].obj] # NoObj
               /\ Resolve(recs[r].obj)
    /\ released' = <<>>
    /\ UNCHANGED <<store, records, dirty, scan, recs, jobs, class_ids, tvec, cstr, pair>>

\* Drop for Runtime. The lifetime 'rt keeps every Context, Value and Atom of
\* the Runtime from outliving it. The assignment of the Destroying store first
\* takes class_ids, then drops the Running store in place, field by field
\* (global_contexts, global_refs, global_atoms), then writes the new tag.
Runtime_drop(p) ==
    /\ Idle(p)
    /\ \A o \in Objs : objs[o].rt = p => objs[o].locals = 0
    /\ store' = [store EXCEPT ![p] = "DropContexts"]
    /\ class_ids' = [class_ids EXCEPT ![p] =
                        [run |-> NoClassIds.run, des |-> @.run, next |-> @.next]]
    /\ ret' = NoRet /\ released' = <<>>
    /\ UNCHANGED <<records, dirty, scan, recs, objs, jobs, tvec, cstr, pair>>

DropStage(k) ==
    CASE k = "ctx" -> "DropContexts" [] k = "val" -> "DropRefs" [] OTHER -> "DropAtoms"

StageAfter(k) ==
    CASE k = "ctx" -> "DropRefs" [] k = "val" -> "DropAtoms" [] OTHER -> "Destroying"

Runtime_drop_holder(p, k) ==
    /\ store[p] = DropStage(k)
    /\ GlobalHolder_drop(p, k)
    /\ store' = [store EXCEPT ![p] = StageAfter(k)]
    /\ ret' = FinalizerRet(objs', p)
    /\ class_ids' = [class_ids EXCEPT ![p] =
                        LET ci == IF Finalized(objs') = {} THEN @
                                  ELSE alloc_class_id(@, StoreTag(p), InstanceClass).ids
                        IN IF StageAfter(k) = "Destroying"
                           THEN [ci EXCEPT !.run = NoClassIds.run] ELSE ci]
    /\ UNCHANGED <<dirty, scan, jobs, tvec, cstr, pair>>

\* JS_FreeRuntime, then the store's Box is freed. Every object of the engine is
\* destroyed, also those whose reference sits in a Record that no holder
\* released.
Runtime_drop_free(p) ==
    /\ store[p] = "Destroying"
    /\ objs' = [o \in Objs |-> IF objs[o].rt = p THEN NoObj ELSE objs[o]]
    /\ store' = [store EXCEPT ![p] = "None"]
    /\ recs' = Forget([r \in Recs |->
                  IF recs[r].rt = p /\ recs[r].value = "Some"
                  THEN [recs[r] EXCEPT !.value = "None"] ELSE recs[r]], records)
    /\ class_ids' = [class_ids EXCEPT ![p] = NoClassIds]
    /\ ret' = FinalizerRet(objs', p) /\ released' = <<>>
    /\ UNCHANGED <<records, dirty, scan, jobs, tvec, cstr, pair>>

\* ------------------------------------------- the eager variant (utils.rs)
\* GlobalRecord.detached of a record of the eager holder.
Detached(r) == recs[r].detached

\* A sweep that finds no record detached.
Swept_none(p, k) == <<>>

\* GlobalHolder::cleanup of the eager variant: the records that retain finds
\* detached, in the holder's order; each is passed to the release function
\* and removed. Each record's flag is read once, so a store to the flag from a
\* dropping handle's thread falls before or after that record's visit.
Swept(p, k) == SelectSeq(records[p][k], Detached)

\* The records the sweep keeps.
Kept(p, k) == SelectSeq(records[p][k], LAMBDA r : r \notin Range(Swept(p, k)))

\* GlobalHolder::new_global(runtime, value) of the eager variant, called as
\* Runtime::new_global_value and new_global_context call it, with the engine's
\* duplicate of the source: cleanup(), then one Arc<GlobalRecord> with detached
\* false, pushed and handed out in the handle.
eager_new_global(p, k, o) ==
    /\ Idle(p) /\ Holds(k, o) /\ objs[o].rt = p
    /\ LET dead == Swept(p, k)
           cleared == [r \in Recs |-> IF r \in Range(dead) THEN NoRec ELSE recs[r]]
           slots == {r \in Recs : cleared[r] = NoRec}
       IN /\ slots # {}
          /\ recs' = [cleared EXCEPT ![Min(slots)] =
                          [rt |-> p, kind |-> k, obj |-> o, strong |-> 1,
                           pend |-> FALSE, attached |-> TRUE, value |-> "Some",
                           detached |-> FALSE]]
          /\ records' = [records EXCEPT ![p][k] = Append(Kept(p, k), Min(slots))]
          /\ objs' = FreeAll(EngineDup(objs, o), dead)
          /\ released' = dead
    /\ ret' = [op |-> "new_global", res |-> "Ok", obj |-> o]
    /\ UNCHANGED <<store, dirty, scan, jobs, class_ids, tvec, cstr, pair>>

\* Drop for Global of the eager variant: record.detached.store(true), then the
\* handle's Arc<GlobalRecord> goes.
eager_Global_drop(r) ==
    /\ recs[r].strong > 0
    /\ recs' = Forget([recs EXCEPT ![r].detached = TRUE, ![r].strong = 0], records)
    /\ ret' = NoRet /\ released' = <<>>
    /\ UNCHANGED <<store, records, dirty, scan, objs, jobs, class_ids, tvec, cstr, pair>>

\* ------------------------------------------- MaybeTinyVec (utils/vec.rs)
\* What an element carries.
Elems == {"a", "b"}

\* TinyVec::try_push: the slot at len is written while len < CAP.
try_push(t, e) ==
    IF t.len < TINY_CAP
    THEN [ok |-> TRUE, tiny |-> [data |-> [t.data EXCEPT ![t.len + 1] = e],
                                 len |-> t.len + 1]]
    ELSE [ok |-> FALSE, tiny |-> t]

\* Deref for TinyVec: the first len slots.
TinySlice(t) == [i \in 1..t.len |-> t.data[i]]

\* A switch to the heap that lets the replaced TinyVec go out of scope as an
\* owner of its elements.
SwitchDropped_owned(t) == TinySlice(t)

\* The elements dropped when push switches to the heap: the TinyVec taken out
\* of self is wrapped in ManuallyDrop, and the assignment to *self drops the
\* empty TinyVec put in its place.
SwitchDropped(t) == <<>>

\* MaybeTinyVec::push.
MaybeTinyVec_push(mv, e) ==
    IF mv.tag = "Tiny"
    THEN LET r == try_push(mv.tiny, e)
         IN IF r.ok THEN [mv EXCEPT !.tiny = r.tiny]
            ELSE [mv EXCEPT !.tag = "Fat", !.tiny = TinyVec_new,
                            !.fat = Append(TinySlice(mv.tiny), e),
                            !.dropped = @ \o SwitchDropped(mv.tiny)]
    ELSE [mv EXCEPT !.fat = Append(@, e)]

RECURSIVE PushAll(_, _)
PushAll(mv, es) ==
    IF es = <<>> THEN mv ELSE PushAll(MaybeTinyVec_push(mv, Head(es)), Tail(es))

\* FromIterator for MaybeTinyVec, for an iterator that yields es and whose
\* size_hint().0 is hint.
from_iter(mv, es, hint) ==
    IF hint > TINY_CAP
    THEN [mv EXCEPT !.tag = "Fat", !.fat = es]
    ELSE PushAll([mv EXCEPT !.tag = "Tiny"], es)

\* Deref for MaybeTinyVec.
MaybeTinyVec_deref(mv) == IF mv.tag = "Tiny" THEN TinySlice(mv.tiny) ELSE mv.fat

\* MaybeTinyVec::len.
MaybeTinyVec_len(mv) == IF mv.tag = "Tiny" THEN mv.tiny.len ELSE Len(mv.fat)

\* The elements an iterator at position idx has still to yield.
Rest(s, idx) == SubSeq(s, idx + 1, Len(s))

VecFrame ==
    UNCHANGED <<store, records, dirty, scan, recs, objs, ret, released, jobs,
                class_ids, cstr, pair>>

\* MaybeTinyVec::new
MaybeTinyVec_new ==
    /\ tvec.tag = "None"
    /\ tvec' = [tvec EXCEPT !.tag = "Tiny"]
    /\ VecFrame

\* v.push(e) with a new element of payload x.
push_element(x) ==
    /\ tvec.tag \in {"Tiny", "Fat"} /\ Len(tvec.pushed) < MaxPush
    /\ LET e == [id |-> Len(tvec.pushed) + 1, v |-> x]
       IN tvec' = [MaybeTinyVec_push(tvec, e) EXCEPT !.pushed = Append(@, e)]
    /\ VecFrame

\* iter.collect::<MaybeTinyVec<_, CAP>>() of n elements of payload x from an
\* iterator whose size_hint().0 is hint.
collect(n, x, hint) ==
    /\ tvec.tag = "None" /\ hint <= n
    /\ LET es == [i \in 1..n |-> [id |-> i, v |-> x]]
       IN tvec' = [from_iter(tvec, es, hint) EXCEPT !.pushed = es]
    /\ VecFrame

\* The vector goes out of scope: Drop for TinyVec drops the first len slots,
\* Vec drops its elements.
MaybeTinyVec_drop ==
    /\ tvec.tag \in {"Tiny", "Fat"}
    /\ tvec' = [tvec EXCEPT !.tag = "Dropped",
                            !.dropped = @ \o MaybeTinyVec_deref(tvec)]
    /\ VecFrame

\* IntoIterator for MaybeTinyVec: the storage moves into the iterator, and the
\* TinyVec left behind has len 0 when it is dropped.
into_iter ==
    /\ tvec.tag \in {"Tiny", "Fat"}
    /\ tvec' = [tvec EXCEPT !.tag = IF tvec.tag = "Tiny" THEN "TinyIter" ELSE "FatIter",
                            !.idx = 0]
    /\ VecFrame

\* The storage of the iterator.
IterItems == IF tvec.tag = "TinyIter" THEN TinySlice(tvec.tiny) ELSE tvec.fat

\* Iterator::next of MaybeTinyVecIntoIter while idx < len: the slot at idx is
\* read out and idx moves on. (At the end next answers None and changes
\* nothing.)
next ==
    /\ tvec.tag \in {"TinyIter", "FatIter"}
    /\ tvec.idx < Len(IterItems)
    /\ tvec' = [tvec EXCEPT !.idx = @ + 1, !.out = Append(@, IterItems[tvec.idx + 1])]
    /\ VecFrame

\* The iterator goes out of scope: the slots from idx on are dropped.
IntoIter_drop ==
    /\ tvec.tag \in {"TinyIter", "FatIter"}
    /\ tvec' = [tvec EXCEPT !.tag = "Dropped",
                            !.dropped = @ \o Rest(IterItems, tvec.idx)]
    /\ VecFrame

\* --------------------------------------- MaybeTinyCString (utils/cstr.rs)
RECURSIVE SeqsUpTo(_)
SeqsUpTo(n) ==
    IF n = 0 THEN {<<>>}
    ELSE SeqsUpTo(n - 1) \cup {Append(t, b) : t \in {u \in SeqsUpTo(n - 1) : Len(u) = n - 1},
                                              b \in Bytes}

\* The byte strings given to MaybeTinyCString::new.
Strings == SeqsUpTo(MaxStr)

\* s.iter().position(|&b| b == 0), and the nul_position() of the NulError of
\* CString::new: the index, counted from 0, of the first NUL of s; NoByte
\* when s has none.
position(s) ==
    IF \E i \in 1..Len(s) : s[i] = 0
    THEN Min({i \in 1..Len(s) : s[i] = 0}) - 1
    ELSE NoByte

\* An inline test that keeps one byte of the buffer free.
FitsInline_strict(n) == n + 1 < CAP

\* The test of TinyCString::new: s.len() + 1 <= CAP.
FitsInline(n) == n + 1 <= CAP

\* TinyCString::new(s): None (tag "None"), or the buffer with the bytes of s
\* copied to its start, a NUL written at index s.len(), and len = s.len() + 1.
TinyCString_new(c, s) ==
    IF FitsInline(Len(s)) /\ position(s) = NoByte
    THEN [c EXCEPT !.tag = "Tiny",
                   !.data = [i \in 1..CAP |-> IF i <= Len(s) THEN s[i]
                                              ELSE IF i = Len(s) + 1 THEN 0 ELSE NoByte],
                   !.wrote = 1..(Len(s) + 1),
                   !.len = Len(s) + 1]
    ELSE c

\* MaybeTinyCString::new(s): the inline string when TinyCString::new made one,
\* else CString::new(s): the bytes and a NUL on the heap, or the NulError.
MaybeTinyCString_new(c, s) ==
    IF TinyCString_new(c, s).tag = "Tiny" THEN TinyCString_new(c, s)
    ELSE IF position(s) # NoByte THEN [c EXCEPT !.tag = "Err", !.pos = position(s)]
    ELSE [c EXCEPT !.tag = "Fat", !.fat = Append(s, 0)]

\* Deref for MaybeTinyCString: the first len bytes of the buffer, or the bytes
\* of the CString with its NUL.
MaybeTinyCString_deref(c) ==
    IF c.tag = "Tiny" THEN [i \in 1..c.len |-> c.data[i]] ELSE c.fat

\* Context::new_c_string(s): MaybeTinyCString::new on the bytes of s.
new_c_string ==
    /\ cstr.tag = "None"
    /\ cstr' = MaybeTinyCString_new(cstr, cstr.s)
    /\ UNCHANGED <<store, records, dirty, scan, recs, objs, ret, released, jobs,
                   class_ids, tvec, pair>>

\* ------------------------------------- the two variants in lockstep
IdsOf(rs) == [i \in 1..Len(rs) |-> rs[i].id]

\* utils.rs, GlobalHolder::cleanup: retain the records that are not detached,
\* pass the others to the release function.
eager_cleanup(rs) ==
    [kept |-> SelectSeq(rs, LAMBDA v : ~v.detached),
     freed |-> IdsOf(SelectSeq(rs, LAMBDA v : v.detached))]

\* utils.rs, the rest of GlobalHolder::new_global: a record that is not
\* detached is appended.
eager_push(rs, id) == Append(rs, [id |-> id, detached |-> FALSE])

\* utils.rs, Drop for Global: detached.store(true) on the shared record.
eager_detach(rs, id) ==
    [i \in 1..Len(rs) |-> IF rs[i].id = id THEN [rs[i] EXCEPT !.detached = TRUE] ELSE rs[i]]

\* utils.rs, Drop for GlobalHolder: every record is passed to the release
\* function.
eager_holder_drop(rs) == IdsOf(rs)

\* utils/global.rs, GlobalHolder::cleanup on the records rs with flag d: the
\* flag is swapped to false; when it was true, the records whose Weak has no
\* strong count left are removed, their value taken and released.
dirty_cleanup(rs, d) ==
    IF d
    THEN [kept |-> SelectSeq(rs, LAMBDA v : v.live),
          freed |-> IdsOf(SelectSeq(rs, LAMBDA v : ~v.live /\ v.value)),
          dirty |-> FALSE]
    ELSE [kept |-> rs, freed |-> <<>>, dirty |-> FALSE]

\* utils/global.rs, GlobalHolder::push: a record with its value and a Weak of
\* the new Arc<Ref>.
dirty_push(rs, id) == Append(rs, [id |-> id, live |-> TRUE, value |-> TRUE])

\* A handle drop that leaves the flag alone.
dirty_Ref_drop_silent(d) == d

\* utils/global.rs, Drop for Ref, run when the handle (the only Arc<Ref>) is
\* dropped: the flag is set.
dirty_Ref_drop(d) == TRUE

\* The Weak of record id has no strong count left.
dirty_unref(rs, id) ==
    [i \in 1..Len(rs) |-> IF rs[i].id = id THEN [rs[i] EXCEPT !.live = FALSE] ELSE rs[i]]

\* utils/global.rs, Drop for GlobalHolder: every record that has its value is
\* passed to the release function.
dirty_holder_drop(rs) == IdsOf(SelectSeq(rs, LAMBDA v : v.value))

\* The release counts after the values of the sequence f were released.
Counted(c, f) ==
    [i \in PromoteIds |-> c[i] + Cardinality({j \in 1..Len(f) : f[j] = i})]

\* The pair after a step that left the eager holder with e and released fe,
\* and left the dirty-flag holder with r, flag d, and released fd.
PairStep(pr, e, fe, r, d, fd) ==
    [pr EXCEPT !.eager = e, !.records = r, !.dirty = d,
               !.freed_e = fe, !.freed_d = fd,
               !.count_e = Counted(@, fe), !.count_d = Counted(@, fd)]

PairFrame ==
    UNCHANGED <<store, records, dirty, scan, recs, objs, ret, released, jobs,
                class_ids, tvec, cstr>>

\* A promotion on both holders: new_global on the eager one, which sweeps and
\* pushes; cleanup() and push on the dirty-flag one.
pair_promote ==
    /\ pair.held /\ pair.n < MaxPromote
    /\ LET id == pair.n + 1
           ce == eager_cleanup(pair.eager)
           cd == dirty_cleanup(pair.records, pair.dirty)
       IN pair' = [PairStep(pair, eager_push(ce.kept, id), ce.freed,
                            dirty_push(cd.kept, id), cd.dirty, cd.freed)
                       EXCEPT !.n = id, !.handles = @ \cup {id}]
    /\ PairFrame

\* The one handle of value id is dropped, on both sides.
pair_handle_drop(id) ==
    /\ id \in pair.handles
    /\ pair' = [PairStep(pair, eager_detach(pair.eager, id), <<>>,
                         dirty_unref(pair.records, id),
                         dirty_Ref_drop(pair.dirty), <<>>)
                    EXCEPT !.handles = @ \ {id}]
    /\ PairFrame

\* A sweep of both holders that is not followed by a push.
pair_sweep ==
    /\ pair.held
    /\ LET ce == eager_cleanup(pair.eager)
           cd == dirty_cleanup(pair.records, pair.dirty)
       IN pair' = PairStep(pair, ce.kept, ce.freed, cd.kept, cd.dirty, cd.freed)
    /\ PairFrame

\* Both holders are dropped.
pair_holder_drop ==
    /\ pair.held
    /\ pair' = [PairStep(pair, <<>>, eager_holder_drop(pair.eager),
                         <<>>, pair.dirty, dirty_holder_drop(pair.records))
                    EXCEPT !.held = FALSE]
    /\ PairFrame

\* New holders, once the old ones and every handle are gone.
pair_new ==
    /\ ~pair.held /\ pair.handles = {}
    /\ pair' = NoPair
    /\ PairFrame

\* ------------------------------------------------- engine callbacks
\* Views that are dropped as owners when the callback returns.
ViewsDropped_owned == TRUE

\* Whether the Runtime and the Context that a callback builds around the
\* engine's raw pointers are dropped when it returns: they are ManuallyDrop,
\* as are the Values made of func_obj, this_val and argv.
ViewsDropped == FALSE

\* The Context that the engine is running in when it calls back: the tracked
\* Context of Runtime 1, none (Plain) for a Runtime whose Context is not
\* tracked.
CallCtx(p) ==
    LET cs == {o \in Objs : objs[o].rt = p /\ objs[o].kind = "ctx" /\ objs[o].locals > 0}
    IN IF cs = {} THEN Plain ELSE Min(cs)

\* What the callee of a class call callback does with its first argument: it
\* returns a clone of it, returns a plain Value, fails with a clone of it, or
\* keeps a clone and returns a plain Value.
CallOuts == {"arg", "plain", "throw_arg", "keep"}

\* The counts after `v.into_raw()` on a clone v of the argument a that the
\* callee made: the clone's count goes with the raw value to the engine, or
\* is given back by the clone's destructor where into_raw does not detach.
ReturnClone(os, a) ==
    LET cloned == [EngineDup(os, a) EXCEPT ![a].locals = @ + 1]
        moved == [cloned EXCEPT ![a].locals = @ - 1, ![a].raws = @ + 1]
    IN IF Detaches(ValueOf(a).tag) THEN moved ELSE EngineFree(moved, a)

\* The class call callback on Runtime p: the engine calls the instance f with
\* the argument a (also as this); the callback wraps the raw pointers in
\* views, calls the class's call and hands its result to the engine with
\* into_raw, or its error with JS_Throw(err.into_raw()).
call(p, f, a, out) ==
    /\ Idle(p) /\ HasContext(p)
    /\ objs[f].kind = "cls" /\ objs[f].rt = p
    /\ IF a = Plain THEN out = "plain"
       ELSE /\ objs[a].rt = p /\ objs[a].kind \in RefTags \cup {"cls"}
            /\ out # "plain" => objs[a].locals + objs[a].raws < MaxLocals
    /\ LET res == CASE out \in {"arg", "throw_arg"} -> ReturnClone(objs, a)
                     [] out = "keep" -> [EngineDup(objs, a) EXCEPT ![a].locals = @ + 1]
                     [] OTHER -> objs
       IN objs' = IF ViewsDropped THEN EngineFree(res, CallCtx(p)) ELSE res
    /\ store' = IF ViewsDropped THEN [store EXCEPT ![p] = "DropContexts"] ELSE store
    /\ ret' = [op |-> "call", res |-> IF out = "throw_arg" THEN "throw" ELSE out,
               obj |-> a]
    /\ released' = <<>>
    /\ UNCHANGED <<records, dirty, scan, recs, jobs, class_ids, tvec, cstr, pair>>

\* Drop for Runtime entered for an engine whose store is already Destroying,
\* as an owner made around the raw pointer during JS_FreeRuntime would enter
\* it: the Destroying arm of the match panics before anything is freed.
Runtime_drop_again(p) ==
    /\ store[p] = "Destroying"
    /\ Fail("drop", IF StoreTag(p) = "Running" THEN "Ok" ELSE "panic")

\* A handle drop and a cleanup() that run to their end before the next call of
\* a single-threaded client.
Busy == (\E r \in Recs : recs[r].pend) \/ (\E p \in Rts : scan[p] # NoScan)

\* The Runtime's thread drops its Context after the local values made with it.
LastLocal(o) ==
    objs[o].kind = "ctx" =>
        \A x \in Objs : (objs[x].rt = objs[o].rt /\ x # o) => objs[x].locals = 0

\* One Runtime whose promoted values are held, cloned and dropped by other
\* threads while its own thread, working with one Context at a time, promotes,
\* sweeps and finally drops it; the next Runtime is made when the handles of
\* the dropped one are gone.
Next ==
    \/ (\A r \in Recs : recs[r] = NoRec) /\ Runtime_new(1)
    \/ \E k \in {"ctx", "val"} : (k = "ctx" => ~HasContext(1)) /\ NewObject(1, k)
    \/ \E o \in Objs : LastLocal(o) /\ Local_drop(o)
    \/ \E o \in Objs : new_global_value(1, o)
    \/ \E r \in Recs : Global_clone(r)
    \/ \E r \in Recs : Global_drop(r)
    \/ \E r \in Recs : Ref_drop(r)
    \/ cleanup_swap(1, "val")
    \/ cleanup_retain(1)
    \/ Runtime_drop(1)
    \/ \E k \in KindSet : Runtime_drop_holder(1, k)
    \/ Runtime_drop_free(1)

Spec == Init /\ [][Next]_vars

\* A single-threaded client of one Runtime, as in the crate's tests: it makes
\* contexts and values, promotes them, drops sources and handles, sweeps, and
\* drops the Runtime.
NextSeq ==
    \/ Runtime_new(1)
    \/ ~Busy /\ \E k \in {"ctx", "val"} : (k = "ctx" => ~HasContext(1)) /\ NewObject(1, k)
    \/ ~Busy /\ \E o \in Objs : Local_drop(o)
    \/ ~Busy /\ \E o \in Objs : new_global_value(1, o)
    \/ ~Busy /\ \E o \in Objs : new_global_context(1, o)
    \/ ~Busy /\ \E r \in Recs : Global_drop(r)
    \/ \E r \in Recs : Ref_drop(r)
    \/ ~Busy /\ \E k \in {"ctx", "val"} : cleanup_swap(1, k)
    \/ cleanup_retain(1)
    \/ ~Busy /\ Runtime_drop(1)
    \/ \E k \in KindSet : Runtime_drop_holder(1, k)
    \/ Runtime_drop_free(1)

SpecSeq == Init /\ [][NextSeq]_vars

\* A single-threaded client of several Runtimes alive at once, which keeps its
\* handles: Runtime 1 has the Context, values and atoms, and each of them and
\* each handle is presented to every Runtime.
NextRt ==
    \/ \E p \in Rts : Runtime_new(p)
    \/ \E k \in KindSet : (k = "ctx" => ~HasContext(1)) /\ NewObject(1, k)
    \/ \E o \in Objs : Local_drop(o)
    \/ \E p \in Rts, o \in Objs : new_global_value(p, o)
    \/ \E p \in Rts, o \in Objs : new_global_context(p, o)
    \/ \E p \in Rts, o \in Objs : new_global_atom(p, o)
    \/ \E r \in Recs, p \in Rts : to_local(r, p)

SpecRt == Init /\ [][NextRt]_vars

\* A single-threaded client that makes class instances, contexts and atoms,
\* ties some of them into cycles, promotes them and plain values, keeps the
\* handles, and drops the Runtime while the records are still registered;
\* callbacks that the engine runs during the drop attempt promotions of their
\* own.
NextDrop ==
    \/ (\A r \in Recs : recs[r] = NoRec) /\ Runtime_new(1)
    \/ \E k \in {"ctx", "cls", "atom"} :
           (k = "ctx" => ~HasContext(1)) /\ NewObject(1, k)
    \/ \E o \in Objs : set_property(o)
    \/ \E o \in Objs : Local_drop(o)
    \/ \E o \in Objs \cup {Plain} : new_global_value(1, o)
    \/ \E o \in Objs : new_global_context(1, o)
    \/ \E o \in Objs : new_global_atom(1, o)
    \/ Runtime_drop(1)
    \/ \E k \in KindSet : Runtime_drop_holder(1, k)
    \/ Runtime_drop_free(1)
    \/ \E k \in KindSet, o \in Objs \cup {Plain} : callback_promote(1, k, o)

SpecDrop == Init /\ [][NextDrop]_vars

\* A single-threaded client of several Runtimes that promotes plain Values on
\* each of them, resolves the handles against each of them and drops them.
NextPlain ==
    \/ \E p \in Rts : Runtime_new(p)
    \/ \E p \in Rts : new_global_value(p, Plain)
    \/ \E r \in Recs, p \in Rts : to_local(r, p)
    \/ ~Busy /\ \E r \in Recs : Global_drop(r)
    \/ \E r \in Recs : Ref_drop(r)
    \/ ~Busy /\ \E p \in Rts : cleanup_swap(p, "val")
    \/ \E p \in Rts : cleanup_retain(p)

SpecPlain == Init /\ [][NextPlain]_vars

\* A single-threaded client that keeps its handles past the Runtime they were
\* made on, makes the next Runtime, which the allocator may place at the same
\* address, and resolves the old handles against it.
NextStale ==
    \/ Runtime_new(1)
    \/ \E k \in {"ctx", "val"} : (k = "ctx" => ~HasContext(1)) /\ NewObject(1, k)
    \/ \E o \in Objs : Local_drop(o)
    \/ \E o \in Objs : new_global_value(1, o)
    \/ \E o \in Objs : new_global_context(1, o)
    \/ Runtime_drop(1)
    \/ \E k \in KindSet : Runtime_drop_holder(1, k)
    \/ Runtime_drop_free(1)
    \/ \E r \in Recs : to_local(r, 1)

SpecStale == Init /\ [][NextStale]_vars

\* A client of one Runtime that works on one engine value at a time: it gets
\* the value from its Context, clones it, views it, turns it into a raw value
\* and back, drops the wrappers and lets the raw values' owners release them;
\* and it does the same with plain Values.
NextVal ==
    \/ Runtime_new(2)
    \/ \E t \in RefTags \cup {"atom"} :
           (\A o \in Objs : objs[o] = NoObj) /\ NewObject(2, t)
    \/ \E o \in Objs : Value_clone(o)
    \/ \E o \in Objs : Value_as_raw(o)
    \/ \E o \in Objs : Value_into_raw(o)
    \/ Value_from_raw
    \/ \E o \in Objs : Local_drop(o)
    \/ \E o \in Objs : JS_FreeValue(o)
    \/ \E op \in {"clone", "as_raw", "into_raw", "drop"}, v \in PlainValues :
           Value_plain(op, v)

SpecVal == Init /\ [][NextVal]_vars

\* A single-threaded client of one Runtime that makes Contexts and clones of
\* them, enqueues jobs, runs them and drops the Contexts.
NextJobs ==
    \/ Runtime_new(1)
    \/ NewObject(1, "ctx")
    \/ \E o \in Objs : Context_clone(o)
    \/ \E o \in Objs, kind \in JobKinds : enqueue_job(o, kind)
    \/ execute_pending_jobs(1)
    \/ \E o \in Objs : Context_drop(o)
    \/ JS_ExecutePendingJob(1)

SpecJobs == Init /\ [][NextJobs]_vars

\* A client of one Runtime whose holders are eager ones: it promotes values and
\* contexts and drops the handles, on any thread, and the sources; the Runtime
\* is dropped with whatever is registered.
NextEager ==
    \/ (\A r \in Recs : recs[r] = NoRec) /\ Runtime_new(1)
    \/ \E k \in {"ctx", "val"} : (k = "ctx" => ~HasContext(1)) /\ NewObject(1, k)
    \/ \E o \in Objs : Local_drop(o)
    \/ \E k \in {"ctx", "val"}, o \in Objs : eager_new_global(1, k, o)
    \/ \E r \in Recs : eager_Global_drop(r)
    \/ Runtime_drop(1)
    \/ \E k \in KindSet : Runtime_drop_holder(1, k)
    \/ Runtime_drop_free(1)

SpecEager == Init /\ [][NextEager]_vars

\* A client of one Runtime at a time that makes class instances and values,
\* has the engine call the instances, lets the engine release what the calls
\* returned, and drops the Runtime.
NextCall ==
    \/ \E p \in {1, 2} : (\A q \in Rts : store[q] = "None") /\ Runtime_new(p)
    \/ \E p \in {1, 2}, k \in {"ctx", "cls", "Symbol"} :
           (k = "ctx" => p = 1 /\ ~HasContext(1)) /\ NewObject(p, k)
    \/ \E o \in Objs : Local_drop(o)
    \/ \E p \in {1, 2}, f \in Objs, a \in Objs \cup {Plain}, out \in CallOuts :
           call(p, f, a, out)
    \/ \E o \in Objs : JS_FreeValue(o)
    \/ \E p \in {1, 2} : Runtime_drop(p)
    \/ \E p \in {1, 2}, k \in KindSet : Runtime_drop_holder(p, k)
    \/ \E p \in {1, 2} : Runtime_drop_free(p)
    \/ \E p \in {1, 2} : Runtime_drop_again(p)

SpecCall == Init /\ [][NextCall]_vars

\* One comparison, of any two Values.
NextEq == ret = NoRet /\ \E v, w \in RefValues \cup PlainValues : Value_compare(v, w)

SpecEq == Init /\ [][NextEq]_vars

\* A client that keeps its handles, and clones of them, past the Runtime:
\* the Runtime is dropped with every record registered, and the handles are
\* dropped, on any thread, once it is gone.
NextOrphan ==
    \/ (\A r \in Recs : recs[r] = NoRec) /\ Runtime_new(1)
    \/ \E k \in {"ctx", "val"} : (k = "ctx" => ~HasContext(1)) /\ NewObject(1, k)
    \/ \E o \in Objs : Local_drop(o)
    \/ \E o \in Objs : new_global_value(1, o)
    \/ \E o \in Objs : new_global_context(1, o)
    \/ \E r \in Recs : Global_clone(r)
    \/ Runtime_drop(1)
    \/ \E k \in KindSet : Runtime_drop_holder(1, k)
    \/ Runtime_drop_free(1)
    \/ store[1] = "None" /\ \E r \in Recs : Global_drop(r)
    \/ \E r \in Recs : Ref_drop(r)

SpecOrphan == Init /\ [][NextOrphan]_vars

\* Two Runtimes whose client registers classes by creating instances and by
\* asking values for their opaque pointer, promotes values and instances, and
\* drops a Runtime while records are still registered, so that finalizers run
\* inside the drop.
NextClass ==
    \/ \E p \in {1, 2} : (\A r \in Recs : recs[r] = NoRec) /\ Runtime_new(p)
    \/ \E p \in {1, 2}, k \in {"ctx", "cls"} :
           (k = "ctx" => p = 1 /\ ~HasContext(1)) /\ NewObject(p, k)
    \/ \E p \in {1, 2}, c \in ClassTypes : get_class_opaque(p, c)
    \/ \E o \in Objs : Local_drop(o)
    \/ \E p \in {1, 2}, o \in Objs : new_global_value(p, o)
    \/ \E p \in {1, 2} : Runtime_drop(p)
    \/ \E p \in {1, 2}, k \in KindSet : Runtime_drop_holder(p, k)
    \/ \E p \in {1, 2} : Runtime_drop_free(p)

SpecClass == Init /\ [][NextClass]_vars

\* One client that promotes on an eager holder and on a dirty-flag holder at
\* once, with one handle per record, drops handles, sweeps and drops the
\* holders.
NextPair ==
    \/ pair_promote
    \/ \E id \in PromoteIds : pair_handle_drop(id)
    \/ pair_sweep
    \/ pair_holder_drop
    \/ pair_new

SpecPair == Init /\ [][NextPair]_vars

\* One MaybeTinyVec from its creation, by new and pushes or by collect, to the
\* drop of the vector or of the iterator it was turned into.
NextVec ==
    \/ MaybeTinyVec_new
    \/ \E x \in Elems : push_element(x)
    \/ \E n \in 0..MaxPush, x \in Elems, hint \in 0..MaxPush : collect(n, x, hint)
    \/ MaybeTinyVec_drop
    \/ into_iter
    \/ next
    \/ IntoIter_drop

SpecVec == Init /\ [][NextVec]_vars

\* MaybeTinyCString::new applied to every byte string of up to MaxStr bytes.
InitCStr ==
    /\ store = [p \in Rts |-> "None"]
    /\ records = [p \in Rts |-> [k \in KindSet |-> <<>>]]
    /\ dirty = [p \in Rts |-> [k \in KindSet |-> FALSE]]
    /\ scan = [p \in Rts |-> NoScan]
    /\ recs = [r \in Recs |-> NoRec]
    /\ objs = [o \in Objs |-> NoObj]
    /\ ret = NoRet
    /\ released = <<>>
    /\ jobs = [p \in Rts |-> NoJobs]
    /\ class_ids = [p \in Rts |-> NoClassIds]
    /\ tvec = NoVec
    /\ cstr \in {[NoCStr EXCEPT !.s = s] : s \in Strings}
    /\ pair = NoPair

NextCStr == new_c_string

SpecCStr == InitCStr /\ [][NextCStr]_vars

\* ================================================================ properties
\* The records of holder (p, k) that a handle still refers to.
LiveRecs(rc, p, k) ==
    {r \in Recs : rc[r].rt = p /\ rc[r].kind = k /\ rc[r].attached /\ rc[r].strong > 0}

\* The step that ends a cleanup() of holder (p, k): the swap that found the
\* flag false (or no record), or the visit of the last record.
CleanupEnds(p, k) ==
    \/ cleanup_swap(p, k) /\ scan'[p] = NoScan
    \/ cleanup_retain(p) /\ scan[p].kind = k /\ scan'[p] = NoScan

\* The records of holder (p, k) whose handles had all finished dropping when
\* the cleanup() that is running, or about to run, started.
DeadAtStart(p, k) == IF scan[p] = NoScan THEN DeadIn(p, k) ELSE scan[p].dead0

\* C1: once the handle of a promoted value and all its clones have been
\* dropped, the next cleanup() scans, removes exactly that record and passes
\* its value to the release function exactly once (a record whose handle is
\* alive is kept and nothing is released for it); what has been released has
\* its value taken and is in no holder, so no later cleanup() or holder drop
\* can release it again.
C1_SweepReleasesOnce ==
    [][/\ \A p \in Rts, k \in KindSet :
              cleanup_swap(p, k) /\ DeadAtStart(p, k) # {}
                  => scan'[p] # NoScan /\ scan'[p].dead0 = DeadAtStart(p, k)
       /\ \A p \in Rts :
              cleanup_retain(p) =>
                  LET k == scan[p].kind
                      r == records[p][k][scan[p].pos]
                  IN /\ r \in scan[p].dead0 =>
                            /\ released' = <<r>>
                            /\ r \notin Range(records'[p][k])
                            /\ Len(records'[p][k]) = Len(records[p][k]) - 1
                     /\ recs[r].strong > 0 => released' = <<>> /\ records' = records
                     /\ scan'[p] = NoScan => scan[p].dead0 \cap Range(records'[p][k]) = {}
       /\ \A i \in 1..Len(released') :
              /\ recs[released'[i]].value = "Some"
              /\ recs'[released'[i]].value = "None"
              /\ InHolder(records, released'[i])
              /\ ~InHolder(records', released'[i])
      ]_vars

C1_Witness ==
    \E r \in Recs :
        /\ released = <<r>> /\ store[1] = "Running"
        /\ recs[r] = NoRec /\ ~InHolder(records, r)

\* C2: count invariant. Every record of a holder was pushed into it, so of N
\* pushed records of which M have lost all their handles, N-M are referenced.
\* A cleanup() that no handle drop races with (every unreferenced record was
\* unreferenced, its drop finished, when the cleanup() started) ends with
\* exactly the referenced records in the holder, each once: N-M records.
C2_CountInvariant ==
    [][\A p \in Rts, k \in KindSet :
          (/\ CleanupEnds(p, k)
           /\ \A r \in Range(records[p][k]) : recs[r].strong = 0 => r \in DeadAtStart(p, k))
          => /\ Range(records'[p][k]) = LiveRecs(recs', p, k)
             /\ Len(records'[p][k]) = Cardinality(LiveRecs(recs', p, k))
      ]_vars

C2_Witness ==
    /\ store[1] = "Running" /\ scan[1] = NoScan /\ released # <<>>
    /\ Len(records[1]["val"]) = 1
    /\ \A r \in Range(records[1]["val"]) : recs[r].strong > 0 /\ recs[r].value = "Some"
    /\ ~dirty[1]["val"]

\* C3: under every interleaving of handle clones and drops with push() and
\* cleanup(), a record that cleanup() releases has no handle left (its strong
\* count is zero), and a record that a handle refers to when cleanup() visits
\* the holder stays registered with its value.
C3_SweepSparesLive ==
    [][\A p \in Rts :
          cleanup_retain(p) =>
              /\ \A i \in 1..Len(released') : recs[released'[i]].strong = 0
              /\ \A r \in Range(records[p][scan[p].kind]) :
                     recs[r].strong > 0 =>
                         r \in Range(records'[p][scan[p].kind]) /\ recs'[r].value = "Some"
      ]_vars

C3_Witness ==
    /\ store[1] = "Running" /\ released # <<>>
    /\ \E r \in Range(records[1]["val"]) : recs[r].strong = MaxHandles

\* C4: teardown completeness. A record leaves a holder only in a cleanup() or
\* in the holder's drop, so without cleanup() all K promoted records are
\* registered when the Runtime is dropped; the holder's drop passes every
\* registered record to the release function exactly once, K calls, whether
\* or not a handle to it is alive.
C4_TeardownComplete ==
    [][\A p \in Rts, k \in KindSet :
          /\ Len(records[p][k]) = Cardinality(Range(records[p][k]))
          /\ Runtime_drop_holder(p, k) =>
                 /\ released' = records[p][k]
                 /\ records'[p][k] = <<>>
                 /\ \A r \in Range(records[p][k]) :
                        recs[r].value = "Some" /\ recs'[r].value = "None"
          /\ Range(records[p][k]) \ Range(records'[p][k]) # {} =>
                 cleanup_retain(p) \/ Runtime_drop_holder(p, k)
      ]_vars

C4_Witness ==
    /\ store[1] = "DropAtoms" /\ Len(released) = 2
    /\ \E i, j \in 1..2 : recs[released[i]].strong > 0 /\ recs[released[j]] = NoRec

\* C5: a handle promoted on Runtime A (value, context or atom) resolved against
\* another Runtime B yields InvalidRuntime and no engine reference is
\* duplicated; resolved against A while its record is registered it yields
\* the promoted value, duplicated once.
C5_CrossRuntimeFails ==
    [][\A r \in Recs, p \in Rts :
          to_local(r, p) =>
              IF recs[r].rt # p
              THEN ret' = [op |-> "to_local", res |-> "InvalidRuntime", obj |-> 0]
                   /\ objs' = objs
              ELSE recs[r].value = "Some" =>
                       /\ ret' = [op |-> "to_local", res |-> "Ok", obj |-> recs[r].obj]
                       /\ IF recs[r].obj = Plain THEN objs' = objs
                          ELSE objs'[recs[r].obj].rc = objs[recs[r].obj].rc + 1
      ]_vars

C5_Witness ==
    /\ ret = [op |-> "to_local", res |-> "InvalidRuntime", obj |-> 0]
    /\ store[1] = "Running" /\ store[2] = "Running"
    /\ \E r \in Recs :
           /\ recs[r].strong > 0 /\ recs[r].rt = 1 /\ recs[r].value = "Some"
           /\ recs[r].kind = "atom"
           /\ \A x \in Recs \ {r} : recs[x] = NoRec

\* C6: the drop of a handle (the strong-count decrement and, for the last
\* handle, Ref::drop) changes only the record's liveness count and may set its
\* own holder's dirty flag: nothing is released, no holder's collection and no
\* registered record's value changes, no engine object is touched.
C6_HandleDropFrame ==
    [][\A r \in Recs :
          (Global_drop(r) \/ Ref_drop(r)) =>
              /\ UNCHANGED <<store, records, objs, scan>>
              /\ released' = <<>>
              /\ \A x \in Recs \ {r} : recs'[x] = recs[x]
              /\ InHolder(records, r) =>
                     recs'[r] = [recs[r] EXCEPT !.strong = recs'[r].strong,
                                                !.pend = recs'[r].pend]
              /\ \A p \in Rts, k \in KindSet :
                     dirty'[p][k] # dirty[p][k] =>
                         dirty'[p][k] /\ p = recs[r].rt /\ k = recs[r].kind
      ]_vars

C6_Witness ==
    /\ store[1] = "Running" /\ scan[1] = NoScan /\ dirty[1]["val"]
    /\ released = <<>> /\ ret = NoRet
    /\ \E r \in Range(records[1]["val"]) : Dead(r) /\ recs[r].value = "Some"

\* Every registered record whose last handle has finished dropping is still
\* going to be visited: its holder's flag is set, or a running cleanup() of
\* that holder has not reached it yet.
NoLostDetach ==
    \A p \in Rts, k \in KindSet :
        \A i \in 1..Len(records[p][k]) :
            Dead(records[p][k][i]) =>
                \/ dirty[p][k]
                \/ scan[p] # NoScan /\ scan[p].kind = k /\ i >= scan[p].pos

C8_CleanupIdempotent ==
    [][\A p \in Rts, k \in KindSet :
          /\ cleanup_swap(p, k) => ~dirty'[p][k]
          /\ cleanup_retain(p) => dirty' = dirty
          /\ (~dirty[p][k] /\ dirty'[p][k]) =>
                 \E r \in Recs : Ref_drop(r) /\ recs[r].rt = p /\ recs[r].kind = k
          /\ (cleanup_swap(p, k) /\ ~dirty[p][k]) =>
                 /\ scan'[p] = NoScan /\ released' = <<>>
                 /\ UNCHANGED <<store, records, dirty, recs, objs>>
      ]_vars

C8_Witness ==
    /\ ret.op = "cleanup" /\ scan[1] = NoScan /\ ~dirty[1]["val"]
    /\ Len(records[1]["val"]) = MaxRecs /\ released = <<>>

\* The registered, unreleased records that hold a reference to object o.
Owned(o) == {r \in Recs : recs[r].value = "Some" /\ recs[r].obj = o}

\* C9: a promoted record owns its own engine reference. The engine's count of
\* an object is its local wrappers plus the registered records that hold it,
\* so an object whose sources are all dropped stays alive on its record alone;
\* a record with a live handle stays registered and unreleased through every
\* cleanup(); an unreleased record is a registered one, so the record removed
\* after its handle is dropped gives back exactly its one reference.
C9_RecordOwnsReference ==
    /\ \A o \in Objs :
           IF objs[o] = NoObj THEN Owned(o) = {}
           ELSE objs[o].rc = objs[o].locals + Cardinality(Owned(o))
    /\ \A r \in Recs :
           /\ (recs[r].strong > 0 /\ recs[r].attached) =>
                  recs[r].value = "Some" /\ r \in Range(records[recs[r].rt][recs[r].kind])
           /\ recs[r].value = "Some" =>
                  /\ r \in Range(records[recs[r].rt][recs[r].kind])
                  /\ objs[recs[r].obj].rt = recs[r].rt
                  /\ objs[recs[r].obj].kind = recs[r].kind

C9_Witness ==
    /\ ret.op = "cleanup" /\ scan[1] = NoScan /\ store[1] = "Running"
    /\ Len(records[1]["ctx"]) = 1 /\ Len(records[1]["val"]) = 1
    /\ recs[records[1]["ctx"][1]].strong > 0 /\ recs[records[1]["val"][1]].strong > 0
    /\ \A o \in Objs : objs[o].rt = 1 /\ objs[o].locals = 0 /\ objs[o].rc = 1

\* C10: new_global_value with a Value of another Runtime and
\* new_global_context with a Context of another Runtime return
\* Err(InvalidRuntime) and change nothing: no record in any holder, no engine
\* reference duplicated, every dirty flag as it was.
C10_WrongRuntimePromotion ==
    [][\A p \in Rts, o \in Objs :
          ((new_global_value(p, o) \/ new_global_context(p, o)) /\ objs[o].rt # p) =>
              /\ ret'.res = "InvalidRuntime" /\ ret'.obj = 0
              /\ released' = <<>>
              /\ UNCHANGED <<store, records, dirty, scan, recs, objs>>
      ]_vars

C10_Witness ==
    /\ ret = [op |-> "new_global_value", res |-> "InvalidRuntime", obj |-> 0]
    /\ store[1] = "Running" /\ store[2] = "Running"
    /\ \E o \in Objs : objs[o].kind = "val" /\ objs[o].rt = 1 /\ objs[o].locals > 0
\* The step is a promotion on Runtime p, by the client or from a callback.
Promotes(p) ==
    \/ \E o \in Objs \cup {Plain} : new_global_value(p, o)
    \/ \E o \in Objs : new_global_context(p, o) \/ new_global_atom(p, o)
    \/ \E k \in KindSet, o \in Objs \cup {Plain} : callback_promote(p, k, o)

\* C11: Runtime teardown order. From the first step of Runtime::drop on, the
\* store is no longer Running and every promotion is refused; the records of
\* the three holders are released after that and before the engine is freed;
\* the engine is freed only when no registered record is left unreleased, and
\* the store is deallocated with or after it; nothing is released once the
\* engine is gone.
C11_TeardownOrder ==
    [][\A p \in Rts :
          /\ InCallback(p) => StoreTag(p) # "Running"
          /\ (InCallback(p) /\ Promotes(p)) => ret'.res = "panic"
          /\ Runtime_drop_free(p) =>
                 /\ \A k \in KindSet : records[p][k] = <<>>
                 /\ \A r \in Recs : recs[r].rt = p => recs[r].value = "None"
          /\ (store[p] = "None" /\ store'[p] = "None") =>
                 \A i \in 1..Len(released') : recs[released'[i]].rt # p]_vars

\* C12: no partial-teardown state is observable. Whatever reads the store while
\* the Runtime is being dropped finds the complete Running store or the
\* Destroying store with every class id: a class finalizer called by the engine
\* never reads a Running store whose class-id table was already taken.
C12_NoPartialTeardown ==
    ret.op = "finalizer" => ret.res \in {"Running", "Destroying"}

C14_StaleResolveFatal ==
    [][\A r \in Recs, p \in Rts :
          (to_local(r, p) /\ GetMatches(r, p) /\ recs[r].value = "None") =>
              ret'.res \notin {"Ok", "InvalidRuntime"}]_vars

\* C15: InvalidRuntime is always recoverable. A promotion handed a Value, a
\* Context or an Atom of another Runtime, and a resolution of a handle of
\* another Runtime, report InvalidRuntime to the caller and never panic.
C15_InvalidRuntimeRecoverable ==
    [][\A p \in Rts :
          /\ \A o \in Objs :
                (/\ objs[o].rt # p
                 /\ new_global_value(p, o) \/ new_global_context(p, o)
                        \/ new_global_atom(p, o)) => ret'.res = "InvalidRuntime"
          /\ \A r \in Recs :
                (to_local(r, p) /\ recs[r].rt # p) => ret'.res = "InvalidRuntime"]_vars

\* C16: plain variants carry no runtime identity. get_runtime answers None for
\* every plain Value, the same-runtime assertion passes for it on every
\* Runtime, and new_global_value on a plain Value succeeds on whichever Runtime
\* it is called: it registers a record and returns a handle.
C16_PlainHasNoRuntime ==
    [][/\ \A v \in PlainValues : get_runtime(v) = 0
       /\ \A p \in Rts, v \in PlainValues : enforce_value_in_same_runtime(p, v)
       /\ \A p \in Rts : new_global_value(p, Plain) =>
              /\ ret' = [op |-> "new_global_value", res |-> "Ok", obj |-> Plain]
              /\ Len(records'[p]["val"]) = Len(records[p]["val"]) + 1
              /\ objs' = objs]_vars

\* A plain value has just been promoted on Runtime 2 after it had been
\* promoted on Runtime 1.
C16_Witness ==
    /\ ret = [op |-> "new_global_value", res |-> "Ok", obj |-> Plain]
    /\ \E r \in Range(records[1]["val"]) : recs[r].obj = Plain
    /\ records[2]["val"] # <<>> /\ recs[records[2]["val"][Len(records[2]["val"])]].obj = Plain

\* The counts of o that Records hold.
Held(o) == Cardinality({r \in Recs : recs[r].obj = o /\ recs[r].value = "Some"})

\* C17: Value::into_raw consumes the Value without running its destructor.
\* For every reference-counted variant the object is still there afterwards
\* and its engine count is what it was before the call.
C17_IntoRawKeepsCount ==
    [][\A o \in Objs :
          Value_into_raw(o) => objs'[o] # NoObj /\ objs'[o].rc = objs[o].rc]_vars

\* C18: reference-count balance. The engine count of an object is the number
\* of live wrappers that own it plus the counts handed out by into_raw (plus
\* the counts held by records); from_raw adopts a count without adding one,
\* clone adds one, a destructor takes one, and operations on plain Values
\* change no count.
C18_CountBalance ==
    /\ [](\A o \in Objs :
             objs[o] # NoObj => objs[o].rc = objs[o].locals + objs[o].raws + Held(o))
    /\ [][/\ \A o \in Objs :
               /\ Value_clone(o) => objs'[o].rc = objs[o].rc + 1
               /\ (Local_drop(o) /\ objs'[o] # NoObj) => objs'[o].rc = objs[o].rc - 1
               /\ (Local_drop(o) /\ objs'[o] = NoObj) => objs[o].rc = 1
          /\ Value_from_raw => \A o \in Objs : objs'[o].rc = objs[o].rc
          /\ (\E op \in {"clone", "as_raw", "into_raw", "drop"}, v \in PlainValues :
                 Value_plain(op, v)) => objs' = objs]_vars

\* as_raw is a view: the step changes no count, it returns the variant's tag
\* with the wrapper's pointer, and a second call on the same Value returns
\* what the first returned.
AsRawIsView ==
    /\ \A o \in Objs :
          Value_as_raw(o) =>
              /\ objs' = objs
              /\ ret'.raw.tag = objs[o].kind /\ ret'.raw.u = o
    /\ (ret.op = "as_raw" /\ ret'.op = "as_raw" /\ ret'.obj = ret.obj
           /\ ret'.src.tag = ret.src.tag /\ ret'.src.u = ret.src.u) =>
          (ret'.raw.tag = ret.raw.tag /\ ret'.raw.u = ret.raw.u)

\* The Value that from_raw built from v.into_raw() is v again: the same
\* variant, the same pointer or payload, and equal to v.
RoundTripSame ==
    /\ ret'.val.tag = ret.src.tag /\ ret'.val.u = ret.src.u
    /\ Value_eq(ret'.val, ret.src)

\* C19 as claimed: as_raw is a non-consuming view that leaves the count alone
\* and returns the same tagged value on every call, and from_raw(rt,
\* v.into_raw()) is a Value of the same variant with the same pointer or
\* payload, equal to v, for every Value v.
C19_RoundTripAll ==
    [][AsRawIsView /\ (Value_from_raw => RoundTripSame)]_vars

\* C19, amended: as above, with the round trip claimed for every Value but a
\* Float64 that holds NaN or a whole number.
C19_RoundTrip ==
    [][/\ AsRawIsView
       /\ (/\ Value_from_raw
           /\ ~(ret.src.tag = "Float64" /\ (ret.src.u = NaN \/ ret.src.u % 10 = 0))) =>
              RoundTripSame]_vars

\* A Symbol has been turned into a raw value and back, and a Float64 with a
\* fraction can be.
C19_Witness ==
    /\ ret.op = "from_raw" /\ ret.src.tag = "Symbol"
    /\ ret.val.tag = "Symbol" /\ ret.val.rt = 2 /\ ret.val.u = ret.obj
    /\ [tag |-> "Float64", rt |-> 0, u |-> 15] \in PlainValues

\* C20: two Values that carry a pointer are equal exactly when they have the
\* same tag, the same owning Runtime and the same raw pointer; Values of
\* different tags are never equal, nor is one pointer under two Runtimes.
C20_EqualityIsIdentity ==
    ret.op = "eq" =>
        /\ ret.src.tag # ret.val.tag => ret.res = "false"
        /\ ret.src.tag \in RefTags =>
               (ret.res = "true" <=>
                   /\ ret.src.tag = ret.val.tag
                   /\ ret.src.rt = ret.val.rt
                   /\ ret.src.u = ret.val.u)

\* An Object of Runtime 1 has been compared with the Object at the same
\* address under Runtime 2, and found different.
C20_Witness ==
    /\ ret.op = "eq" /\ ret.res = "false"
    /\ ret.src = [tag |-> "Object", rt |-> 1, u |-> 1]
    /\ ret.val = [tag |-> "Object", rt |-> 2, u |-> 1]

\* C21: a successful resolution hands out a fresh owning reference and leaves
\* the registry alone. to_local against the promoting Runtime, the record
\* registered, duplicates the engine reference once and returns a local that
\* owns the duplicate; no record is added, removed or released and no dirty
\* flag changes. Dropping a local of a promoted object gives back one count
\* only: the object stays, its records keep their value, and so the handle
\* resolves again.
C21_ResolveFrame ==
    /\ [](\A r \in Recs :
             (recs[r].value = "Some" /\ recs[r].obj # Plain) =>
                 /\ objs[recs[r].obj] # NoObj
                 /\ objs[recs[r].obj].rc > objs[recs[r].obj].locals)
    /\ [][/\ \A r \in Recs, p \in Rts :
               (to_local(r, p) /\ GetMatches(r, p) /\ recs[r].value = "Some") =>
                   /\ ret' = [op |-> "to_local", res |-> "Ok", obj |-> recs[r].obj]
                   /\ UNCHANGED <<store, records, dirty, scan, recs>>
                   /\ released' = <<>>
                   /\ recs[r].obj # Plain =>
                          objs' = [objs EXCEPT ![recs[r].obj].rc = @ + 1,
                                               ![recs[r].obj].locals = @ + 1]
          /\ \A o \in Objs :
               (Local_drop(o) /\ Owned(o) # {}) =>
                   /\ objs' = [objs EXCEPT ![o].rc = @ - 1, ![o].locals = @ - 1]
                   /\ UNCHANGED <<records, dirty, recs>>
                   /\ released' = <<>>]_vars

\* A handle has just been resolved for the second time: the source of the
\* promoted value is dropped, one resolved local is alive, and the resolution
\* made another.
C21_Witness ==
    /\ ret.op = "to_local" /\ ret.res = "Ok" /\ ret.obj \in Objs
    /\ objs[ret.obj].locals = 2 /\ objs[ret.obj].rc = 3
    /\ Cardinality(Owned(ret.obj)) = 1

\* C22: dropping a handle after its holder is gone is a no-op. The holder's
\* destructor passes every registered record to the release function, once
\* each, whether or not handles to it are alive; the drop of such a handle
\* afterwards (the decrement, and Ref::drop for the last clone) releases
\* nothing and touches no engine object, no holder and no store. A released
\* record has lost its value, so it is released once in total.
C22_OrphanDropNoop ==
    [][/\ \A p \in Rts, k \in KindSet :
             Runtime_drop_holder(p, k) =>
                 /\ released' = records[p][k]
                 /\ Len(records[p][k]) = Cardinality(Range(records[p][k]))
                 /\ \A r \in Range(records[p][k]) : ~recs'[r].attached
       /\ \A r \in Recs :
             ((Global_drop(r) \/ Ref_drop(r)) /\ ~recs[r].attached) =>
                 /\ released' = <<>>
                 /\ UNCHANGED <<store, records, dirty, scan, objs>>
                 /\ recs[r].value = "None" /\ recs'[r].value = "None"
       /\ \A i \in 1..Len(released') :
             recs[released'[i]].value = "Some" /\ recs'[released'[i]].value = "None"
      ]_vars

\* The Runtime is gone and its holder released the record while its handle
\* was alive; the last clone of that handle has since been dropped and is in
\* Ref::drop.
C22_Witness ==
    /\ store[1] = "None" /\ released = <<>>
    /\ \E r \in Recs :
           /\ recs[r].pend /\ ~recs[r].attached /\ recs[r].value = "None"
           /\ \A x \in Recs \ {r} : recs[x] = NoRec
    /\ \A o \in Objs : objs[o] = NoObj

\* C23: opportunistic sweep on context creation. Runtime::new_context sweeps
\* the holders of global contexts and global values without an explicit
\* cleanup(): right after it, no record whose handles have all been dropped
\* is left in either holder, so with every handle dropped both hold 0
\* records.
C23_SweepOnNewContext ==
    [][\A p \in Rts :
          NewObject(p, "ctx") =>
              \A k \in {"ctx", "val"} :
                  /\ \A r \in Range(records'[p][k]) : ~Dead(r)
                  /\ LiveRecs(recs, p, k) = {} => Len(records'[p][k]) = 0]_vars

\* The ids of the jobs in Runtime p's list.
Pending(p) == {jobs[p].list[i].id : i \in 1..Len(jobs[p].list)}

\* C24: pending jobs run exactly once. Every job enqueued so far is either
\* still in the list and has not run, or has left the list and has run once;
\* and execute_pending_jobs returns only when the list is empty, so that after
\* one call each of the N jobs enqueued has run exactly once.
C24_JobsRunOnce ==
    /\ [](\A p \in Rts, j \in JobIds :
             jobs[p].ran[j] = IF j <= jobs[p].n /\ j \notin Pending(p) THEN 1 ELSE 0)
    /\ [][\A p \in Rts :
             (JS_ExecutePendingJob(p) /\ jobs'[p].loop = "none") =>
                 /\ jobs'[p].list = <<>>
                 /\ \A j \in 1..jobs'[p].n : jobs'[p].ran[j] = 1]_vars

\* One call of execute_pending_jobs has just returned with every job that
\* could be enqueued run once, each on a Context that is still alive.
C24_Witness ==
    /\ ret.op = "execute_pending_jobs" /\ ret.res = "done"
    /\ jobs[1].n = MaxJobs /\ jobs[1].list = <<>>
    /\ \A j \in JobIds : jobs[1].ran[j] = 1

\* C25: cloning a handle makes no record and duplicates no engine reference:
\* it only adds one to the count of handles of the same record. Under every
\* interleaving of clones, drops and cleanup(), the drop of a clone that is
\* not the last leaves the record referenced (cleanup() keeps it), and a
\* record stops being referenced only in the drop of its last clone.
C25_ClonesShareRecord ==
    [][\A r \in Recs :
          /\ Global_clone(r) =>
                 /\ recs' = [recs EXCEPT ![r].strong = @ + 1]
                 /\ released' = <<>>
                 /\ UNCHANGED <<store, records, dirty, scan, objs>>
          /\ (Global_drop(r) /\ recs[r].strong > 1) =>
                 /\ recs' = [recs EXCEPT ![r].strong = @ - 1]
                 /\ RetainLive(r) /\ recs'[r].strong > 0
          /\ (recs[r].strong > 0 /\ recs'[r].strong = 0) =>
                 Global_drop(r) /\ recs[r].strong = 1
          /\ \A p \in Rts :
                 (cleanup_retain(p) /\ recs[r].strong > 0) =>
                     /\ recs'[r] = recs[r]
                     /\ \A i \in 1..Len(released') : released'[i] # r]_vars

\* A promoted value whose source is gone is held by one record with as many
\* handles as can be: the engine object has the record's one reference.
C25_Witness ==
    /\ store[1] = "Running" /\ Len(records[1]["val"]) = 1
    /\ recs[records[1]["val"][1]].strong = MaxHandles
    /\ recs[records[1]["val"][1]].value = "Some"
    /\ objs[recs[records[1]["val"][1]].obj].rc = 1
    /\ objs[recs[records[1]["val"][1]].obj].locals = 0
    /\ \A r \in Recs \ {records[1]["val"][1]} : recs[r] = NoRec

\* C26: in the eager variant new_global sweeps before it registers. Every
\* record whose detached flag is set when the sweep reads it is passed to the
\* release function, once, and removed; then the new record is appended.
\* Afterwards the holder has the records that were not detached, in their
\* order, and last the new record, with detached false.
C26_EagerSweepThenPush ==
    [][\A p \in Rts, k \in KindSet, o \in Objs :
          eager_new_global(p, k, o) =>
              LET n == Len(records'[p][k])
                  new == records'[p][k][n]
              IN /\ released' = SelectSeq(records[p][k], Detached)
                 /\ Len(released') = Cardinality(Range(released'))
                 /\ \A i \in 1..Len(released') : recs[released'[i]].value = "Some"
                 /\ n = Len(records[p][k]) - Len(released') + 1
                 /\ SubSeq(records'[p][k], 1, n - 1) =
                        SelectSeq(records[p][k], LAMBDA r : ~Detached(r))
                 /\ ~recs'[new].detached /\ recs'[new].value = "Some"
                 /\ recs'[new].obj = o /\ recs'[new].strong = 1
                 /\ \A r \in Range(records'[p][k]) : ~recs'[r].detached]_vars

\* A promotion has just swept one detached record of two and appended its own
\* after the one that was kept.
C26_Witness ==
    /\ ret.op = "new_global" /\ Len(released) = 1
    /\ Len(records[1]["val"]) = 2
    /\ \A r \in Range(records[1]["val"]) : recs[r].strong = 1 /\ ~recs[r].detached

\* The step is a promotion of o into holder (p, k) that returned a handle.
Pushes(p, k, o) ==
    /\ ret'.res = "Ok" /\ ret'.obj = o
    /\ \/ k = "val" /\ new_global_value(p, o)
       \/ k = "ctx" /\ new_global_context(p, o)
       \/ k = "atom" /\ new_global_atom(p, o)

\* C27: in the dirty-flag variant push appends exactly one record, which holds
\* the value, and returns a handle with that value and the holder's runtime
\* identity. The records that were there stay, in their order and as they
\* were, unreferenced ones included; no dirty flag changes and nothing is
\* passed to the release function.
C27_PushFrame ==
    [][\A p \in Rts, k \in KindSet, o \in Objs :
          Pushes(p, k, o) =>
              LET n == Len(records'[p][k])
                  new == records'[p][k][n]
              IN /\ records' = [records EXCEPT ![p][k] = Append(@, new)]
                 /\ recs[new] = NoRec
                 /\ recs' = [recs EXCEPT ![new] = recs'[new]]
                 /\ recs'[new].value = "Some" /\ recs'[new].obj = o
                 /\ recs'[new].strong = 1 /\ recs'[new].rt = p
                 /\ dirty' = dirty
                 /\ released' = <<>>]_vars

\* A value has just been promoted into a holder whose flag is set and whose
\* first record has lost its handle: that record is still there.
C27_Witness ==
    /\ ret.op = "new_global_value" /\ ret.res = "Ok"
    /\ dirty[1]["val"] /\ Len(records[1]["val"]) = 2
    /\ Dead(records[1]["val"][1]) /\ recs[records[1]["val"][1]].value = "Some"
    /\ recs[records[1]["val"][2]].strong = 1

\* C28: Context handle discipline. The engine's count of a context is one per
\* Context wrapper (plus one per record that holds it): Clone adds a wrapper
\* and a count, and the drop of a Context takes one wrapper and one count.
\* The drop releases its reference only after execute_pending_jobs has
\* returned: in the step that releases it the job list is empty, before and
\* after, and every job enqueued has run, so no pending job refers to the
\* context.
C28_ContextDiscipline ==
    /\ [](\A o \in Objs :
             objs[o].kind = "ctx" => objs[o].rc = objs[o].locals + Held(o))
    /\ [][\A o \in Objs :
             /\ Context_clone(o) =>
                    objs' = [objs EXCEPT ![o].rc = @ + 1, ![o].locals = @ + 1]
             /\ (objs[o].kind = "ctx" /\ objs'[o].locals < objs[o].locals) =>
                    /\ jobs[objs[o].rt].list = <<>> /\ jobs'[objs[o].rt].list = <<>>
                    /\ \A j \in 1..jobs'[objs[o].rt].n : jobs'[objs[o].rt].ran[j] = 1
                    /\ objs[o].locals = 1 => objs'[o] = NoObj
                    /\ objs[o].locals > 1 =>
                           objs' = [objs EXCEPT ![o].rc = @ - 1, ![o].locals = @ - 1]
         ]_vars

\* The drop of the last Context of an engine context has just released it,
\* with every job that could be enqueued run and another context alive.
C28_Witness ==
    /\ ret.op = "drop_context" /\ objs[ret.obj] = NoObj
    /\ jobs[1].n = MaxJobs /\ jobs[1].list = <<>> /\ jobs[1].loop = "none"
    /\ \A j \in JobIds : jobs[1].ran[j] = 1
    /\ \E o \in Objs : objs[o].kind = "ctx" /\ objs[o].locals > 0

\* The step is a class call callback: only call leaves this in ret.
Calls == ret'.op = "call"

\* C29: the engine is freed once, and only by the owning Runtime's
\* destructor. The store leaves Running only when the client drops the
\* Runtime, and the engine is freed only by that drop's JS_FreeRuntime, from a
\* Destroying store. A callback's views are not dropped as owners: a class
\* call, and a step in which the engine ran a finalizer, move no store and
\* free no engine, and the call releases no context reference. A teardown
\* entered again on a Destroying store panics and frees nothing.
C29_EngineFreedOnce ==
    [][/\ \A p \in Rts :
             /\ (store[p] = "Running" /\ store'[p] # "Running") => Runtime_drop(p)
             /\ (store[p] # "None" /\ store'[p] = "None") =>
                    Runtime_drop_free(p) /\ store[p] = "Destroying"
             /\ (ret'.op = "finalizer" /\ store'[p] # store[p]) =>
                    (\E k \in KindSet : Runtime_drop_holder(p, k)) \/ Runtime_drop_free(p)
             /\ Runtime_drop_again(p) =>
                    /\ ret'.res = "panic"
                    /\ UNCHANGED <<store, records, recs, objs>>
       /\ Calls =>
             /\ store' = store
             /\ \A o \in Objs : objs[o].kind = "ctx" => objs'[o] = objs[o]]_vars

\* A teardown entered again on the Destroying store of Runtime 1 has just
\* panicked; the engine still holds the instance that a class call returned,
\* whose finalizer it has yet to call.
C29_Witness ==
    /\ ret = [op |-> "drop", res |-> "panic", obj |-> 0]
    /\ store[1] = "Destroying"
    /\ \E o \in Objs : objs[o].rt = 1 /\ objs[o].kind = "cls" /\ objs[o].raws > 0

\* C30: the native call bridge keeps the counts balanced. func, this and the
\* arguments are borrowed; the Value the callee returns, or fails with, hands
\* exactly one count to the engine. After a call that returned or threw a
\* clone of its argument, the argument has one count more, owned by the
\* engine; after a call in which the callee kept a clone, one more, owned by
\* that clone; otherwise every count is what it was.
C30_CallKeepsBalance ==
    [][\A p \in Rts, f \in Objs, a \in Objs \cup {Plain}, out \in CallOuts :
          call(p, f, a, out) =>
              CASE out \in {"arg", "throw_arg"} ->
                       objs' = [objs EXCEPT ![a].rc = @ + 1, ![a].raws = @ + 1]
                [] out = "keep" ->
                       objs' = [objs EXCEPT ![a].rc = @ + 1, ![a].locals = @ + 1]
                [] OTHER -> objs' = objs]_vars

\* The id that Runtime p's class type c was given while the store was Running:
\* the entry of the table that Runtime::drop took, or else of the Running table.
KnownClassId(p, c) ==
    IF class_ids[p].des[c] # 0 THEN class_ids[p].des[c] ELSE class_ids[p].run[c]

\* C31: the class-id registry is stable for the Runtime's whole lifetime. A
\* class type that has an id keeps it in every table a later call can read;
\* JS_NewClassID is called only for a type without an id and only through the
\* complete Running store; the Destroying store holds every id given while
\* Running.
C31_ClassIdStable ==
    [][\A p \in Rts :
          (store[p] # "None" /\ store'[p] # "None") =>
              /\ \A c \in ClassTypes :
                     KnownClassId(p, c) # 0 =>
                         /\ class_ids'[p].run[c] \in {0, KnownClassId(p, c)}
                         /\ class_ids'[p].des[c] \in {0, KnownClassId(p, c)}
              /\ class_ids'[p].next # class_ids[p].next =>
                     /\ StoreView(p) = "Running"
                     /\ \E c \in ClassTypes :
                            /\ KnownClassId(p, c) = 0
                            /\ class_ids'[p].run[c] = class_ids[p].next
              /\ store'[p] = "Destroying" =>
                     \A c \in ClassTypes :
                         class_ids'[p].des[c] = KnownClassId(p, c)]_vars

\* How often record r is in the sequence of released records.
TimesIn(s, r) == Cardinality({i \in 1..Len(s) : s[i] = r})

\* C32: exactly-once release over a holder's whole life. Under every
\* interleaving of push, handle clone, handle drop and cleanup(), the value of
\* a record is given up only by being passed to the release function, once,
\* inside a cleanup() or inside the holder's destructor; a value that was
\* released is never released again; and when the holders of a Runtime have
\* been dropped no pushed value is left unreleased.
C32_ReleasedExactlyOnce ==
    /\ [](\A r \in Recs :
             (recs[r].rt # 0 /\ store[recs[r].rt] = "Destroying") => recs[r].value = "None")
    /\ [][\A r \in Recs :
             /\ TimesIn(released', r) <= 1
             /\ TimesIn(released', r) = 1 <=>
                    (recs[r].value = "Some" /\ recs'[r].value = "None")
             /\ TimesIn(released', r) = 1 =>
                    \/ scan[recs[r].rt] # NoScan
                    \/ store[recs[r].rt] = DropStage(recs[r].kind)
             /\ (recs[r].value = "None" /\ recs'[r].value = "Some") => recs[r] = NoRec
       ]_vars

C32_Witness ==
    /\ store[1] = "DropAtoms" /\ Len(released) = 1
    /\ recs[released[1]].strong > 0 /\ recs[released[1]].value = "None"
    /\ \E r \in Recs : r # released[1] /\ recs[r] = NoRec

\* A handle drop of holder (p, k) is in progress: the last handle of one of its
\* records was given up and Ref::drop has not stored to the flag yet.
DropInProgress(p, k) ==
    \E r \in Recs : recs[r].rt = p /\ recs[r].kind = k /\ recs[r].attached /\ recs[r].pend

\* Every record of holder (p, k) has a live handle.
AllReferenced(p, k) == \A r \in Range(records[p][k]) : recs[r].strong > 0

C34_OutlivedHandleFails ==
    [][\A r \in Recs, p \in Rts :
          (to_local(r, p) /\ ~recs[r].attached) =>
              ret'.res = "InvalidRuntime" /\ objs' = objs]_vars

\* C35: the eager variant and the dirty-flag variant agree on what is
\* released. Driven by the same promotions, handle drops (one handle per
\* record), sweeps and holder drop, with the dirty-flag holder swept exactly
\* where the eager one sweeps, both release the same values in the same step,
\* hold the same values after every step, release no value twice, and have
\* released every promoted value exactly once when the holders are dropped.
C35_VariantsAgree ==
    /\ pair.freed_e = pair.freed_d
    /\ IdsOf(pair.eager) = IdsOf(pair.records)
    /\ \A i \in PromoteIds :
           /\ pair.count_e[i] <= 1 /\ pair.count_d[i] = pair.count_e[i]
           /\ (~pair.held /\ i <= pair.n) => pair.count_e[i] = 1

C35_Witness ==
    /\ ~pair.held /\ pair.n = MaxPromote /\ Len(pair.freed_d) = 2
    /\ pair.handles # {}

\* How often element e was dropped or yielded.
Consumed(e) ==
    Cardinality({i \in 1..Len(tvec.dropped) : tvec.dropped[i] = e})
        + Cardinality({i \in 1..Len(tvec.out) : tvec.out[i] = e})

\* C36: MaybeTinyVec behaves as a plain sequence. After any pushes, or a
\* collect, its length is the number of elements given to it and its contents
\* are those elements in order, inline up to CAP elements and on the heap from
\* the (CAP+1)-th on; an iterator yields them in that order; no element is
\* dropped or yielded twice, and once the vector or its iterator has been
\* dropped every element was dropped or yielded exactly once.
C36_VecIsSequence ==
    /\ tvec.tag \in {"Tiny", "Fat"} =>
           /\ MaybeTinyVec_len(tvec) = Len(tvec.pushed)
           /\ MaybeTinyVec_deref(tvec) = tvec.pushed
           /\ tvec.tag = "Tiny" <=> Len(tvec.pushed) <= TINY_CAP
           /\ tvec.dropped = <<>>
    /\ tvec.tag \in {"TinyIter", "FatIter", "Dropped"} =>
           tvec.out = SubSeq(tvec.pushed, 1, Len(tvec.out))
    /\ \A i \in 1..Len(tvec.pushed) :
           /\ Consumed(tvec.pushed[i]) <= 1
           /\ tvec.tag = "Dropped" => Consumed(tvec.pushed[i]) = 1
    /\ \A i \in 1..Len(tvec.dropped) : tvec.dropped[i] \in Range(tvec.pushed)

C36_Witness ==
    /\ tvec.tag = "Dropped" /\ Len(tvec.pushed) = TINY_CAP + 1
    /\ Len(tvec.out) = 1 /\ Len(tvec.dropped) = TINY_CAP

====
